---- MODULE Spec2Model ----
(***************************************************************************)
(* devrk-mcp: the tool registry and lazy-dispatch engine behind the        *)
(* authenticated HTTP transport.  The model follows src/mcp-server.ts (the *)
(* HTTP version), src/index.ts (main), src/config.ts, the static server    *)
(* list of src/servers/index.ts and the tool factory src/utils/            *)
(* tool-factory.ts.  Beside it stand the stdio version of the server, the  *)
(* logger, the AI summarizer, the Composio client and the POST /mcp route  *)
(* handler taken one await at a time, each under a specification of its    *)
(* own.                                                                    *)
(*                                                                         *)
(* Strings that the code takes apart (names, the Authorization header) are *)
(* sequences of one-character strings; opaque strings are TLA+ strings.    *)
(***************************************************************************)
EXTENDS Integers, Sequences, FiniteSets, Bags, TLC

(***************************************************************************)
(* Bounds of the model.                                                    *)
(***************************************************************************)
\* HTTP requests received during one run of the process
MaxRequests == 2
\* modules of the static list that are broken on disk in one run
MaxFaulty == 1
\* tool.call invocations made in-process
MaxCalls == 2
\* summarize invocations made in-process
MaxSummaries == 1
\* runs of the POST /mcp route handler followed step by step
MaxPosts == 2

(***************************************************************************)
(* Name Normalizer                                                         *)
(***************************************************************************)
\* String.prototype.toLowerCase on the letters the regular expression /[A-Z]/ matches
ToLowerCase ==
    "A" :> "a" @@ "B" :> "b" @@ "C" :> "c" @@ "D" :> "d" @@ "E" :> "e" @@ "F" :> "f" @@
    "G" :> "g" @@ "H" :> "h" @@ "I" :> "i" @@ "J" :> "j" @@ "K" :> "k" @@ "L" :> "l" @@
    "M" :> "m" @@ "N" :> "n" @@ "O" :> "o" @@ "P" :> "p" @@ "Q" :> "q" @@ "R" :> "r" @@
    "S" :> "s" @@ "T" :> "t" @@ "U" :> "u" @@ "V" :> "v" @@ "W" :> "w" @@ "X" :> "x" @@
    "Y" :> "y" @@ "Z" :> "z"

RECURSIVE camelToSnake(_)
\* str.replace(/[A-Z]/g, letter => `_${letter.toLowerCase()}`)
camelToSnake(str) ==
    IF str = <<>> THEN <<>>
    ELSE LET c == Head(str)
         IN (IF c \in DOMAIN ToLowerCase THEN <<"_", ToLowerCase[c]>> ELSE <<c>>)
                \o camelToSnake(Tail(str))

RECURSIVE normalizeServerName(_)
\* name.replace(/-/g, '_')
normalizeServerName(name) ==
    IF name = <<>> THEN <<>>
    ELSE (IF Head(name) = "-" THEN <<"_">> ELSE <<Head(name)>>)
            \o normalizeServerName(Tail(name))

\* the wire name with the hyphens of the group kept
mcpToolName_keepHyphens(serverName, toolName) ==
    serverName \o <<"_", "_">> \o camelToSnake(toolName)

\* `${normalizeServerName(serverMeta.name)}__${camelToSnake(toolName)}`
mcpToolName(serverName, toolName) ==
    normalizeServerName(serverName) \o <<"_", "_">> \o camelToSnake(toolName)

(***************************************************************************)
(* The static list of (server, tools) and the scenario catalogs            *)
(***************************************************************************)
N_example == <<"e", "x", "a", "m", "p", "l", "e">>
N_youtube == <<"y", "o", "u", "t", "u", "b", "e">>
N_gmail == <<"g", "m", "a", "i", "l">>
N_greet == <<"g", "r", "e", "e", "t">>
N_getSubscriptions == <<"g", "e", "t", "S", "u", "b", "s", "c", "r", "i", "p", "t", "i", "o", "n", "s">>
N_getPlaylistItems == <<"g", "e", "t", "P", "l", "a", "y", "l", "i", "s", "t", "I", "t", "e", "m", "s">>
N_getLatestVideos == <<"g", "e", "t", "L", "a", "t", "e", "s", "t", "V", "i", "d", "e", "o", "s">>
N_sendEmail == <<"s", "e", "n", "d", "E", "m", "a", "i", "l">>
N_alpha == <<"a", "l", "p", "h", "a">>
N_beta == <<"b", "e", "t", "a">>
N_doThing == <<"d", "o", "T", "h", "i", "n", "g">>
N_getValue == <<"g", "e", "t", "V", "a", "l", "u", "e">>

N_qdrant_rag == <<"q", "d", "r", "a", "n", "t", "-", "r", "a", "g">>
N_qdrant_rag_snake == <<"q", "d", "r", "a", "n", "t", "_", "r", "a", "g">>
N_search == <<"s", "e", "a", "r", "c", "h">>
N_listCollections == <<"l", "i", "s", "t", "C", "o", "l", "l", "e", "c", "t", "i", "o", "n", "s">>

\* the static list with one tool of a server listed twice
serverRegistry_duplicate ==
    << [name |-> N_example, tools |-> <<N_greet>>],
       [name |-> N_youtube,
        tools |-> <<N_getSubscriptions, N_getPlaylistItems, N_getSubscriptions>>],
       [name |-> N_gmail, tools |-> <<N_sendEmail>>] >>

\* export const serverRegistry: ServerMetadata[]
serverRegistry ==
    << [name |-> N_example, tools |-> <<N_greet>>],
       [name |-> N_youtube,
        tools |-> <<N_getSubscriptions, N_getPlaylistItems, N_getLatestVideos>>],
       [name |-> N_gmail, tools |-> <<N_sendEmail>>] >>

\* the catalog of the two-group scenario: alpha(doThing), beta(getValue)
scenarioCatalog ==
    << [name |-> N_alpha, tools |-> <<N_doThing>>],
       [name |-> N_beta, tools |-> <<N_getValue>>] >>

\* the servers the README documents: youtube(getLatestVideos) and
\* qdrant-rag(search, listCollections)
readmeCatalog ==
    << [name |-> N_youtube, tools |-> <<N_getLatestVideos>>],
       [name |-> N_qdrant_rag, tools |-> <<N_search, N_listCollections>>] >>

\* a static list with two groups whose search operations normalize to one
\* wire name: qdrant-rag(search), then qdrant_rag(search)
collidingCatalog ==
    << [name |-> N_qdrant_rag, tools |-> <<N_search>>],
       [name |-> N_qdrant_rag_snake, tools |-> <<N_search>>],
       [name |-> N_youtube, tools |-> <<N_getLatestVideos>>] >>

RECURSIVE PairsOf(_)
\* the (server, tool) pairs in the order the nested for-loops visit them
PairsOf(servers) ==
    IF servers = <<>> THEN <<>>
    ELSE [i \in 1..Len(Head(servers).tools) |->
             [serverName |-> Head(servers).name, toolName |-> Head(servers).tools[i]]]
         \o PairsOf(Tail(servers))

Range(seq) == {seq[i] : i \in 1..Len(seq)}

(***************************************************************************)
(* Values, JSON and validators                                             *)
(***************************************************************************)
\* a JavaScript value: its typeof-like tag and a printable form
Val(type, val) == [type |-> type, val |-> val]
Undefined == Val("undefined", "undefined")

\* an object is a function from property names to values
EmptyObject == [k \in {} |-> Undefined]

\* obj[k]: a property that is not there reads as undefined
Get(obj, k) == IF k \in DOMAIN obj THEN obj[k] ELSE Undefined

\* String(v), as a template literal `${v}` does it
TemplateString(v) == v.val

\* the text of a content item: a JSON document, or an error line made of
\* the tool name and the error's message
NoMessage == [prefix |-> <<>>, message |-> "", issues |-> <<>>]
NoText == [kind |-> "none", doc |-> EmptyObject, toolName |-> <<>>, message |-> NoMessage]

\* JSON.stringify(result, null, 2): properties whose value is undefined are left out
JSONStringify(obj) ==
    LET kept == {k \in DOMAIN obj : obj[k].type # "undefined"}
    IN [NoText EXCEPT !.kind = "json", !.doc = [k \in kept |-> obj[k]]]

\* JSON.parse(text): defined on the texts JSON.stringify produced
JSONParse(text) == text.doc

\* one field of a z.object({...}): its type (for z.enum the allowed strings),
\* whether a missing value is an issue, and the .default(...) it carries
Field(type, options, required, hasDefault, default) ==
    [type |-> type, options |-> options, required |-> required,
     hasDefault |-> hasDefault, default |-> default]

\* z.object({...}): the keys in declaration order and their fields
ZObject(order, fields) == [order |-> order, fields |-> fields]

\* whether a value is accepted by a field's type
TypeAccepts(f, v) ==
    IF f.type = "enum" THEN v.type = "string" /\ v.val \in f.options
    ELSE v.type = f.type

\* the issue zod reports for one key, as a sequence of zero or one issues
FieldIssues(schema, obj, k) ==
    LET f == schema.fields[k]
        v == Get(obj, k)
    IN IF v.type = "undefined"
       THEN IF f.hasDefault \/ ~f.required THEN <<>>
            ELSE << [path |-> k, message |-> "Required"] >>
       ELSE IF TypeAccepts(f, v) THEN <<>>
            ELSE IF f.type = "enum" /\ v.type = "string"
            THEN << [path |-> k, message |-> "Invalid enum value"] >>
            ELSE << [path |-> k, message |-> "Expected " \o f.type \o ", received " \o v.type] >>

RECURSIVE IssuesFrom(_, _, _)
\* ZodError.errors: the issues of the keys from position i on, in key order
IssuesFrom(schema, obj, i) ==
    IF i > Len(schema.order) THEN <<>>
    ELSE FieldIssues(schema, obj, schema.order[i]) \o IssuesFrom(schema, obj, i + 1)

\* schema.parse(obj): the issues (empty on success) and the parsed value, with
\* defaults applied and unknown keys stripped
ZodParse(schema, obj) ==
    LET issues == IssuesFrom(schema, obj, 1)
        present == {k \in Range(schema.order) :
                       Get(obj, k).type # "undefined" \/ schema.fields[k].hasDefault}
    IN [issues |-> issues,
        value |-> [k \in present |->
                      IF Get(obj, k).type = "undefined"
                      THEN schema.fields[k].default ELSE obj[k]]]

(***************************************************************************)
(* Errors                                                                  *)
(***************************************************************************)
\* new Error(message); `issues` are the zod issues a message enumerates
PlainError(message) ==
    [class |-> "Error", tool |-> <<>>, message |-> message, retryable |-> FALSE,
     issues |-> <<>>]

\* new ToolError(tool, message, cause, retryable): super(`[${tool}] ${message}`)
ToolError(tool, message, retryable) ==
    [class |-> "ToolError", tool |-> tool, message |-> message, retryable |-> retryable,
     issues |-> <<>>]

(***************************************************************************)
(* Tool modules: what createTool({name, input, output, execute}) returns   *)
(***************************************************************************)
GreetInputSchema ==
    ZObject(<<"name", "language">>,
            [name |-> Field("string", {}, TRUE, FALSE, Undefined),
             language |-> Field("enum", {"en", "pl", "es"}, TRUE, TRUE, Val("string", "en"))])

GreetOutputSchema ==
    ZObject(<<"greeting", "timestamp">>,
            [greeting |-> Field("string", {}, TRUE, FALSE, Undefined),
             timestamp |-> Field("string", {}, TRUE, FALSE, Undefined)])

\* greet's execute: greetings[input.language], new Date().toISOString()
greetExecute(input) ==
    LET name == TemplateString(Get(input, "name"))
        greetings == [en |-> Val("string", "Hello, " \o name \o "!"),
                      pl |-> Val("string", "Czesc, " \o name \o "!"),
                      es |-> Val("string", "Hola, " \o name \o "!")]
        language == TemplateString(Get(input, "language"))
    IN [greeting |-> IF language \in DOMAIN greetings THEN greetings[language] ELSE Undefined,
        timestamp |-> Val("string", "2024-01-09T10:00:00.000Z")]

GetSubscriptionsInputSchema ==
    ZObject(<<"maxResults">>,
            [maxResults |-> Field("number", {}, TRUE, TRUE, Val("number", "50"))])

GetSubscriptionsOutputSchema ==
    ZObject(<<"subscriptions", "count">>,
            [subscriptions |-> Field("array", {}, TRUE, FALSE, Undefined),
             count |-> Field("number", {}, TRUE, FALSE, Undefined)])

\* the scenario's doThing: requires field x: number
DoThingInputSchema ==
    ZObject(<<"x">>, [x |-> Field("number", {}, TRUE, FALSE, Undefined)])

DoThingOutputSchema ==
    ZObject(<<"result">>, [result |-> Field("string", {}, TRUE, FALSE, Undefined)])

\* qdrant-rag/search: query is required, collection, limit and scoreThreshold
\* have defaults, vectorName is optional
SearchInputSchema ==
    ZObject(<<"query", "collection", "limit", "scoreThreshold", "vectorName">>,
            [query |-> Field("string", {}, TRUE, FALSE, Undefined),
             collection |-> Field("string", {}, TRUE, TRUE, Val("string", "default")),
             limit |-> Field("number", {}, TRUE, TRUE, Val("number", "5")),
             scoreThreshold |-> Field("number", {}, TRUE, TRUE, Val("number", "0.7")),
             vectorName |-> Field("string", {}, FALSE, FALSE, Undefined)])

SearchOutputSchema ==
    ZObject(<<"results", "query", "collection", "totalFound">>,
            [results |-> Field("array", {}, TRUE, FALSE, Undefined),
             query |-> Field("string", {}, TRUE, FALSE, Undefined),
             collection |-> Field("string", {}, TRUE, FALSE, Undefined),
             totalFound |-> Field("number", {}, TRUE, FALSE, Undefined)])

\* qdrant-rag/listCollections: z.object({})
ListCollectionsInputSchema == ZObject(<<>>, [k \in {} |-> Undefined])

ListCollectionsOutputSchema ==
    ZObject(<<"collections", "totalCollections">>,
            [collections |-> Field("array", {}, TRUE, FALSE, Undefined),
             totalCollections |-> Field("number", {}, TRUE, FALSE, Undefined)])

\* the object createTool returns: name, inputSchema, outputSchema, execute
\* (execute is named by the behaviour it has: greet's own code, or a
\* collaborator that talks to a remote service)
Tool(name, input, output, execute) ==
    [name |-> name, inputSchema |-> input, outputSchema |-> output, execute |-> execute]

\* the `name:` each tool file passes to createTool
D_example__greet == <<"e", "x", "a", "m", "p", "l", "e", "_", "_", "g", "r", "e", "e", "t">>
D_youtube__get_subscriptions == <<"y", "o", "u", "t", "u", "b", "e", "_", "_", "g", "e", "t", "_", "s", "u", "b", "s", "c", "r", "i", "p", "t", "i", "o", "n", "s">>
D_youtube__get_playlist_items == <<"y", "o", "u", "t", "u", "b", "e", "_", "_", "g", "e", "t", "_", "p", "l", "a", "y", "l", "i", "s", "t", "_", "i", "t", "e", "m", "s">>
D_youtube__get_latest_videos == <<"y", "o", "u", "t", "u", "b", "e", "_", "_", "g", "e", "t", "_", "l", "a", "t", "e", "s", "t", "_", "v", "i", "d", "e", "o", "s">>
D_gmail__send_email == <<"g", "m", "a", "i", "l", "_", "_", "s", "e", "n", "d", "_", "e", "m", "a", "i", "l">>
D_qdrant_rag__search == <<"q", "d", "r", "a", "n", "t", "_", "r", "a", "g", "_", "_", "s", "e", "a", "r", "c", "h">>
D_qdrant_rag__list_collections == <<"q", "d", "r", "a", "n", "t", "_", "r", "a", "g", "_", "_", "l", "i", "s", "t", "_", "c", "o", "l", "l", "e", "c", "t", "i", "o", "n", "s">>
D_alpha__do_thing == <<"a", "l", "p", "h", "a", "_", "_", "d", "o", "_", "t", "h", "i", "n", "g">>
D_beta__get_value == <<"b", "e", "t", "a", "_", "_", "g", "e", "t", "_", "v", "a", "l", "u", "e">>

\* the tool module at ./servers/<serverName>/<toolName>.js when it is intact
ToolModule(serverName, toolName) ==
    LET path == <<serverName, toolName>>
    IN CASE path = <<N_example, N_greet>> ->
              Tool(D_example__greet, GreetInputSchema, GreetOutputSchema, "greet")
         [] path = <<N_youtube, N_getSubscriptions>> ->
              Tool(D_youtube__get_subscriptions, GetSubscriptionsInputSchema,
                   GetSubscriptionsOutputSchema, "collaborator")
         [] path = <<N_youtube, N_getPlaylistItems>> ->
              Tool(D_youtube__get_playlist_items, GetSubscriptionsInputSchema,
                   GetSubscriptionsOutputSchema, "collaborator")
         [] path = <<N_youtube, N_getLatestVideos>> ->
              Tool(D_youtube__get_latest_videos, GetSubscriptionsInputSchema,
                   GetSubscriptionsOutputSchema, "collaborator")
         [] path = <<N_gmail, N_sendEmail>> ->
              Tool(D_gmail__send_email, GetSubscriptionsInputSchema,
                   GetSubscriptionsOutputSchema, "collaborator")
         [] path = <<N_qdrant_rag, N_search>> ->
              Tool(D_qdrant_rag__search, SearchInputSchema, SearchOutputSchema,
                   "collaborator")
         [] path = <<N_qdrant_rag, N_listCollections>> ->
              Tool(D_qdrant_rag__list_collections, ListCollectionsInputSchema,
                   ListCollectionsOutputSchema, "collaborator")
         [] path = <<N_qdrant_rag_snake, N_search>> ->
              Tool(D_qdrant_rag__search, DoThingInputSchema, DoThingOutputSchema,
                   "collaborator")
         [] path = <<N_alpha, N_doThing>> ->
              Tool(D_alpha__do_thing, DoThingInputSchema, DoThingOutputSchema,
                   "collaborator")
         [] OTHER ->
              Tool(D_beta__get_value, GetSubscriptionsInputSchema,
                   GetSubscriptionsOutputSchema, "collaborator")

\* what is on disk for one entry of the static list
ModuleKinds == {"ok", "importFails", "noExport", "noExecute", "schemaThrows"}

\* the kinds with which loadToolMetadata throws
BrokenKinds == {"importFails", "noExport", "schemaThrows"}

\* await import(modulePath) and module[toolName] || module.default
\*   importFails  : the import rejects (the module throws while it is evaluated)
\*   noExport     : the module has neither the named nor a default export
\*   noExecute    : the export is an object whose execute is not a function
\*   schemaThrows : the export's inputSchema is not a schema zodToJsonSchema converts
ImportModule(kind, serverName, toolName) ==
    [loads |-> kind # "importFails",
     hasTool |-> kind \notin {"importFails", "noExport"},
     hasExecute |-> kind \in {"ok", "schemaThrows"},
     convertible |-> kind # "schemaThrows",
     tool |-> ToolModule(serverName, toolName)]

(***************************************************************************)
(* Schema Translator                                                       *)
(***************************************************************************)
\* the JSON Schema of a z.object: type, properties, required
JsonSchemaOf(schema) ==
    [type |-> "object",
     properties |-> [k \in Range(schema.order) |-> schema.fields[k].type],
     required |-> {k \in Range(schema.order) :
                      schema.fields[k].required /\ ~schema.fields[k].hasDefault},
     hasRef |-> FALSE, hasDefinitions |-> FALSE, hasSchemaKey |-> FALSE]

\* zodToJsonSchema(schema, {name, $refStrategy: 'none'}): with a name the
\* document is {$schema, $ref: '#/definitions/<name>', definitions: {<name>: ...}}
zodToJsonSchema(schema, name) ==
    [hasRef |-> TRUE, ref |-> <<"#/definitions/">> \o name,
     hasDefinitions |-> TRUE, definitions |-> (name :> JsonSchemaOf(schema)),
     hasSchemaKey |-> TRUE]

\* loadToolMetadata storing the converted document as it is
flattenSchema_noDeref(fullSchema) == fullSchema

\* loadToolMetadata's flattening of the converted document
flattenSchema(fullSchema) ==
    IF fullSchema.hasDefinitions /\ fullSchema.hasRef
    THEN LET refKey == Tail(fullSchema.ref)
         IN IF refKey \in DOMAIN fullSchema.definitions
            THEN [fullSchema.definitions[refKey] EXCEPT !.hasSchemaKey = FALSE]
            ELSE [fullSchema EXCEPT !.hasSchemaKey = FALSE]
    ELSE fullSchema

\* extractToolDescription: createTool's object has no description, so `${tool.name} tool`
extractToolDescription(tool, serverName, toolName) == tool.name \o <<" ", "t", "o", "o", "l">>

\* loadToolMetadata naming the tool `${serverName}__${toolName}`, without
\* the case conversion
loadToolMetadata_rawName(serverName, toolName, kind) ==
    LET module == ImportModule(kind, serverName, toolName)
        tool == module.tool
        name == serverName \o <<"_", "_">> \o toolName
    IN IF ~module.loads \/ ~module.hasTool \/ ~module.convertible
       THEN [ok |-> FALSE, error |-> PlainError("Cannot load tool metadata")]
       ELSE [ok |-> TRUE,
             metadata |->
                [name |-> name,
                 description |-> extractToolDescription(tool, serverName, toolName),
                 inputSchema |->
                    flattenSchema(zodToJsonSchema(tool.inputSchema,
                                                  name \o <<"_", "i", "n", "p", "u", "t">>))]]

\* loadToolMetadata(serverName, toolName): the Tool metadata, or the error thrown
loadToolMetadata(serverName, toolName, kind) ==
    LET module == ImportModule(kind, serverName, toolName)
        tool == module.tool
        name == normalizeServerName(serverName) \o <<"_", "_">> \o camelToSnake(toolName)
    IN IF ~module.loads
       THEN [ok |-> FALSE, error |-> PlainError("Cannot find module")]
       ELSE IF ~module.hasTool
       THEN [ok |-> FALSE, error |-> PlainError("Tool not found in module")]
       ELSE IF ~module.convertible
       THEN [ok |-> FALSE, error |-> PlainError("schema conversion failed")]
       ELSE [ok |-> TRUE,
             metadata |->
                [name |-> name,
                 description |-> extractToolDescription(tool, serverName, toolName),
                 inputSchema |->
                    flattenSchema(zodToJsonSchema(tool.inputSchema,
                                                  name \o <<"_", "i", "n", "p", "u", "t">>))]]

(***************************************************************************)
(* Tool Registry: a JavaScript Map, kept as the sequence of its entries in *)
(* insertion order                                                         *)
(***************************************************************************)
\* import(modulePath) and the loader's module map: the first import of a
\* path evaluates the module and the map keeps it, whether the evaluation
\* completed or threw; every later import of the path gets what was kept
ImportInto(cache, i) == cache \cup {i}

\* Map.prototype.has
MapHas(map, key) == \E i \in 1..Len(map) : map[i].key = key

\* Map.prototype.get (on a key the map has)
MapGet(map, key) == map[CHOOSE i \in 1..Len(map) : map[i].key = key]

\* a Map whose set leaves an existing key as it is
MapSet_keepFirst(map, key, entry) ==
    IF MapHas(map, key) THEN map
    ELSE Append(map, [key |-> key, serverName |-> entry.serverName,
                      toolName |-> entry.toolName, metadata |-> entry.metadata])

\* Map.prototype.set: a new key is appended, an existing key keeps its place
MapSet(map, key, entry) ==
    LET e == [key |-> key, serverName |-> entry.serverName,
              toolName |-> entry.toolName, metadata |-> entry.metadata]
    IN IF MapHas(map, key)
       THEN [i \in 1..Len(map) |-> IF map[i].key = key THEN e ELSE map[i]]
       ELSE Append(map, e)

(***************************************************************************)
(* Logger: threshold and output streams                                    *)
(***************************************************************************)
\* the number of lines the logger is asked to write in one run
MaxLogs == 2

LOG_LEVELS == [debug |-> 0, info |-> 1, warn |-> 2, error |-> 3, fatal |-> 4]

\* process.env.LOG_LEVEL when the variable is not set
NoEnv == "undefined"

\* LOG_LEVELS[process.env.LOG_LEVEL] ?? LOG_LEVELS.info: a name LOG_LEVELS
\* has gives its number; a name it inherits from Object.prototype gives a
\* function, which is not nullish; every other name gives info
currentLevelOf(env) ==
    IF env \in DOMAIN LOG_LEVELS THEN Val("number", LOG_LEVELS[env])
    ELSE IF env = "toString" THEN Val("function", 0)
    ELSE Val("number", LOG_LEVELS.info)

\* a < b where b may be no number: a comparison with NaN is false
LessThan(a, b) == b.type = "number" /\ a < b.val

\* nothing written yet
NoOutput == [stdout |-> <<>>, stderr |-> <<>>]

(***************************************************************************)
(* The POST /mcp route handler, one await at a time                        *)
(***************************************************************************)
\* one run of the handler: where it is, whether its transport and protocol
\* server exist and are closed, whether the response's headers were sent,
\* whether the response has closed, whether the 'close' listener is
\* registered, and the status answered by the handler's catch
NoPost ==
    [stage |-> "idle", pair |-> "none", headersSent |-> FALSE, resClosed |-> FALSE,
     listener |-> FALSE, status |-> 0]

NoPosts == [id \in 1..MaxPosts |-> NoPost]

(***************************************************************************)
(* State                                                                   *)
(***************************************************************************)
VARIABLES
    pc,            \* where the process is: "boot", "registering", "serving", "exited"
    exitCode,      \* the status passed to process.exit, -1 while running
    apiKey,        \* config.server.apiKey: env('MCP_API_KEY', '')
    servers,       \* getAllServers(): the static list
    modules,       \* per pair of the list (by position): what is on disk
    idx,           \* position of the nested registration loops in PairsOf(servers)
    toolRegistry,  \* the Map<string, ToolRegistryEntry>
    errorLog,      \* positions whose registration failure was logged
    listening,     \* whether app.listen has been called
    reqs,          \* the bag of HTTP requests received so far
    calls,         \* the bag of tool.call(rawInput) and summarize(text) invocations made in-process
    moduleCache,   \* the loader's module map: positions of the modules imported so far
    instances,     \* protocol server and transport pairs created so far
    currentLevel,  \* the logger's threshold, fixed when the logger module is loaded
    console,       \* what console.log / console.error wrote: stdout and stderr
    posts          \* the runs of the POST /mcp route handler, step by step

vars == <<pc, exitCode, apiKey, servers, modules, idx, toolRegistry, errorLog, listening, reqs,
          calls, moduleCache, instances, currentLevel, console, posts>>

\* the shared secret used in the runs
Secret == <<"s", "3", "c">>

\* the module states a run may start from: on disk a module is intact ("ok"),
\* lacks execute ("noExecute"), or cannot be registered ("broken")
DiskStates == {"ok", "noExecute", "broken"}

ModulePatterns(n) ==
    {m \in [1..n -> DiskStates] : Cardinality({i \in 1..n : m[i] # "ok"}) <= MaxFaulty}

\* the state when the process starts with one of the given static lists
InitWith(catalogs) ==
    /\ pc = "boot"
    /\ exitCode = -1
    /\ apiKey \in {<<>>, Secret}
    /\ servers \in catalogs
    /\ modules \in ModulePatterns(Len(PairsOf(servers)))
    /\ idx = 1
    /\ toolRegistry = <<>>
    /\ errorLog = {}
    /\ listening = FALSE
    /\ reqs = EmptyBag
    /\ calls = EmptyBag
    /\ moduleCache = {}
    /\ instances = 0
    /\ currentLevel = currentLevelOf(NoEnv)
    /\ console = NoOutput
    /\ posts = NoPosts

\* the process as shipped: the static list is serverRegistry
Init == InitWith({serverRegistry})

\* the two-group scenario: the static list is scenarioCatalog
InitScenario == InitWith({scenarioCatalog})

(***************************************************************************)
(* Startup: main() and startMcpServer()                                    *)
(***************************************************************************)
\* main() without the MCP_API_KEY check
main_noFailFast ==
    /\ pc = "boot"
    /\ pc' = "registering"
    /\ UNCHANGED <<exitCode, apiKey, servers, modules, idx, toolRegistry, errorLog, listening, reqs, calls, moduleCache, instances, currentLevel, console, posts>>

\* main(): fail fast when MCP_API_KEY is not set, else startMcpServer()
main ==
    /\ pc = "boot"
    /\ IF apiKey = <<>>
       THEN /\ pc' = "exited"
            /\ exitCode' = 1
       ELSE /\ pc' = "registering"
            /\ UNCHANGED exitCode
    /\ UNCHANGED <<apiKey, servers, modules, idx, toolRegistry, errorLog, listening, reqs, calls, moduleCache, instances, currentLevel, console, posts>>

\* initializeToolRegistry without the try/catch around one entry: a failed
\* registration rejects startMcpServer and main() exits
initializeToolRegistry_abort ==
    /\ pc = "registering"
    /\ idx <= Len(PairsOf(servers))
    /\ LET pair == PairsOf(servers)[idx]
           mcpName == mcpToolName(pair.serverName, pair.toolName)
       IN \E kind \in (IF modules[idx] = "broken" THEN BrokenKinds ELSE {modules[idx]}) :
            LET loaded == loadToolMetadata(pair.serverName, pair.toolName, kind)
            IN /\ moduleCache' = ImportInto(moduleCache, idx)
               /\ IF loaded.ok
                  THEN /\ toolRegistry' =
                             MapSet(toolRegistry, mcpName,
                                    [serverName |-> pair.serverName,
                                     toolName |-> pair.toolName,
                                     metadata |-> loaded.metadata])
                       /\ UNCHANGED <<pc, exitCode>>
                  ELSE /\ pc' = "exited"
                       /\ exitCode' = 1
                       /\ UNCHANGED toolRegistry
    /\ idx' = idx + 1
    /\ UNCHANGED <<apiKey, servers, modules, errorLog, listening, reqs, calls, instances, currentLevel, console, posts>>

\* one iteration of initializeToolRegistry's loops: load the metadata and
\* set the entry, or catch the error and log it
initializeToolRegistry ==
    /\ pc = "registering"
    /\ idx <= Len(PairsOf(servers))
    /\ LET pair == PairsOf(servers)[idx]
           mcpName == mcpToolName(pair.serverName, pair.toolName)
       IN \E kind \in (IF modules[idx] = "broken" THEN BrokenKinds ELSE {modules[idx]}) :
            LET loaded == loadToolMetadata(pair.serverName, pair.toolName, kind)
            IN /\ moduleCache' = ImportInto(moduleCache, idx)
               /\ IF loaded.ok
                  THEN /\ toolRegistry' =
                             MapSet(toolRegistry, mcpName,
                                    [serverName |-> pair.serverName,
                                     toolName |-> pair.toolName,
                                     metadata |-> loaded.metadata])
                       /\ UNCHANGED errorLog
                  ELSE /\ errorLog' = errorLog \cup {idx}
                       /\ UNCHANGED toolRegistry
    /\ idx' = idx + 1
    /\ UNCHANGED <<pc, exitCode, apiKey, servers, modules, listening, reqs, calls, instances, currentLevel, console, posts>>

\* startMcpServer() after the registry is built: the express app and app.listen
startMcpServer ==
    /\ pc = "registering"
    /\ idx > Len(PairsOf(servers))
    /\ pc' = "serving"
    /\ listening' = TRUE
    /\ UNCHANGED <<exitCode, apiKey, servers, modules, idx, toolRegistry, errorLog, reqs, calls, moduleCache, instances, currentLevel, console, posts>>

(***************************************************************************)
(* HTTP transport: bearer authentication and the express routes            *)
(***************************************************************************)
\* req.headers.authorization: undefined when the header is absent
Header(value) == [present |-> TRUE, value |-> value]
NoHeader == [present |-> FALSE, value |-> <<>>]

BearerPrefix == <<"B", "e", "a", "r", "e", "r", " ">>

\* String.prototype.startsWith
startsWith(s, prefix) ==
    Len(s) >= Len(prefix) /\ SubSeq(s, 1, Len(prefix)) = prefix

\* String.prototype.slice(start), start counted from 0
slice(s, start) == SubSeq(s, start + 1, Len(s))

\* a response body; the JSON-RPC shaped ones carry jsonrpc '2.0', an error
\* code and id null
NoBody ==
    [kind |-> "none", code |-> 0, message |-> "", idNull |-> FALSE, n |-> 0,
     tools |-> <<>>, text |-> NoText, isError |-> FALSE,
     structured |-> FALSE]

JsonRpcError(code, message) ==
    [NoBody EXCEPT !.kind = "jsonrpcError", !.code = code, !.message = message,
                   !.idNull = TRUE]

\* bearerAuth answering 403 without returning, so that next() still runs
bearerAuth_noReturn(authHeader, configuredKey) ==
    IF ~authHeader.present \/ authHeader.value = <<>>
          \/ ~startsWith(authHeader.value, BearerPrefix)
    THEN [next |-> FALSE, status |-> 401,
          body |-> JsonRpcError(-32001, "Missing or invalid Authorization header. Expected: Bearer <token>")]
    ELSE [next |-> TRUE, status |-> 0, body |-> NoBody]

\* the three outcomes of bearerAuth(req, res, next)
bearerAuth(authHeader, configuredKey) ==
    IF ~authHeader.present \/ authHeader.value = <<>>
          \/ ~startsWith(authHeader.value, BearerPrefix)
    THEN [next |-> FALSE, status |-> 401,
          body |-> JsonRpcError(-32001, "Missing or invalid Authorization header. Expected: Bearer <token>")]
    ELSE LET token == slice(authHeader.value, 7)
         IN IF token # configuredKey
            THEN [next |-> FALSE, status |-> 403,
                  body |-> JsonRpcError(-32002, "Invalid API key")]
            ELSE [next |-> TRUE, status |-> 0, body |-> NoBody]

\* the app with app.use('/mcp', bearerAuth) registered after the routes
appStack_authLast ==
    << [kind |-> "use", method |-> "*", path |-> "", fn |-> "json"],
       [kind |-> "route", method |-> "GET", path |-> "/health", fn |-> "health"],
       [kind |-> "route", method |-> "POST", path |-> "/mcp", fn |-> "postMcp"],
       [kind |-> "route", method |-> "GET", path |-> "/mcp", fn |-> "getMcp"],
       [kind |-> "route", method |-> "DELETE", path |-> "/mcp", fn |-> "deleteMcp"],
       [kind |-> "use", method |-> "*", path |-> "/mcp", fn |-> "bearerAuth"] >>

\* the app with bearerAuth mounted on every path, before the health route
appStack_authAll ==
    << [kind |-> "use", method |-> "*", path |-> "", fn |-> "json"],
       [kind |-> "use", method |-> "*", path |-> "", fn |-> "bearerAuth"],
       [kind |-> "route", method |-> "GET", path |-> "/health", fn |-> "health"],
       [kind |-> "route", method |-> "POST", path |-> "/mcp", fn |-> "postMcp"],
       [kind |-> "route", method |-> "GET", path |-> "/mcp", fn |-> "getMcp"],
       [kind |-> "route", method |-> "DELETE", path |-> "/mcp", fn |-> "deleteMcp"] >>

\* the app without the GET /mcp and DELETE /mcp routes
appStack_postOnly ==
    << [kind |-> "use", method |-> "*", path |-> "", fn |-> "json"],
       [kind |-> "route", method |-> "GET", path |-> "/health", fn |-> "health"],
       [kind |-> "use", method |-> "*", path |-> "/mcp", fn |-> "bearerAuth"],
       [kind |-> "route", method |-> "POST", path |-> "/mcp", fn |-> "postMcp"] >>

\* the express app of startMcpServer: middleware and routes in the order
\* they are registered
appStack ==
    << [kind |-> "use", method |-> "*", path |-> "", fn |-> "json"],
       [kind |-> "route", method |-> "GET", path |-> "/health", fn |-> "health"],
       [kind |-> "use", method |-> "*", path |-> "/mcp", fn |-> "bearerAuth"],
       [kind |-> "route", method |-> "POST", path |-> "/mcp", fn |-> "postMcp"],
       [kind |-> "route", method |-> "GET", path |-> "/mcp", fn |-> "getMcp"],
       [kind |-> "route", method |-> "DELETE", path |-> "/mcp", fn |-> "deleteMcp"] >>

\* express: app.use(path, fn) matches every method on the path, app.METHOD
\* matches its method on its path
LayerMatches(layer, method, path) ==
    IF layer.kind = "use"
    THEN layer.path = "" \/ layer.path = path
    ELSE layer.method = method /\ layer.path = path

RECURSIVE RunStack(_, _, _, _, _)
\* express walks the stack from layer i: a middleware either answers or calls
\* next(); a route handler takes the request; past the last layer express
\* answers 404.  The result names the route handler reached ("none" when a
\* middleware or express itself answered) and what bearerAuth did.
RunStack(stack, i, req, key, auth) ==
    IF i > Len(stack)
    THEN [route |-> "none", authRan |-> auth.ran, authNext |-> auth.next,
          status |-> 404, body |-> [NoBody EXCEPT !.kind = "notFound"]]
    ELSE IF ~LayerMatches(stack[i], req.method, req.path)
    THEN RunStack(stack, i + 1, req, key, auth)
    ELSE IF stack[i].fn = "json"
    THEN RunStack(stack, i + 1, req, key, auth)
    ELSE IF stack[i].fn = "bearerAuth"
    THEN LET a == bearerAuth(req.auth, key)
         IN IF a.next
            THEN RunStack(stack, i + 1, req, key, [ran |-> TRUE, next |-> TRUE])
            ELSE [route |-> "none", authRan |-> TRUE, authNext |-> FALSE,
                  status |-> a.status, body |-> a.body]
    ELSE [route |-> stack[i].fn, authRan |-> auth.ran, authNext |-> auth.next,
          status |-> 0, body |-> NoBody]

\* the path of one request through the app
Route(req, key) == RunStack(appStack, 1, req, key, [ran |-> FALSE, next |-> FALSE])

(***************************************************************************)
(* Request Dispatcher: the List and Call handlers of createMcpServer       *)
(***************************************************************************)
\* the List handler returning the entries last-registered first
ListTools_reversed(registry) ==
    [i \in 1..Len(registry) |-> registry[Len(registry) + 1 - i].metadata]

\* ListToolsRequestSchema handler:
\* Array.from(toolRegistry.values()).map(entry => entry.metadata)
ListTools(registry) == [i \in 1..Len(registry) |-> registry[i].metadata]

\* error.message: ToolError's constructor prefixes the message with `[${tool}] `
ErrorMessage(error) ==
    [prefix |-> IF error.class = "ToolError" THEN error.tool ELSE <<>>,
     message |-> error.message, issues |-> error.issues]

\* the catch block of the Call handler:
\* {content: [{type: 'text', text: `Error executing ${toolName}: ${error.message}`}], isError: true}
CallFailure(toolName, error) ==
    [NoBody EXCEPT !.kind = "callResult",
                   !.text = [NoText EXCEPT !.kind = "error", !.toolName = toolName,
                                           !.message = ErrorMessage(error)],
                   !.isError = TRUE]

\* the success return of the Call handler:
\* {content: [{type: 'text', text: JSON.stringify(result, null, 2)}]}
CallSuccess(result) ==
    [NoBody EXCEPT !.kind = "callResult", !.text = JSONStringify(result)]

\* a handler that throws: the protocol server answers the JSON-RPC request
\* with an error object carrying the thrown message
ProtocolError(error) ==
    [NoBody EXCEPT !.kind = "rpcError", !.code = -32603, !.message = error.message,
                   !.text = [NoText EXCEPT !.kind = "error", !.toolName = error.tool,
                                           !.message = ErrorMessage(error)]]

\* throw new Error(`Unknown tool: ${toolName}`)
UnknownTool(toolName) ==
    [class |-> "Error", tool |-> toolName, message |-> "Unknown tool", retryable |-> FALSE,
     issues |-> <<>>]

\* a value the output validator accepts
ConformingValue(schema) ==
    [k \in Range(schema.order) |->
        Val(IF schema.fields[k].type = "enum" THEN "string" ELSE schema.fields[k].type, "v")]

\* what `await tool.execute(input)` can do: greet computes its result; a
\* collaborator calls a remote service and returns a result or throws
ExecuteOutcomes(tool, input) ==
    IF tool.execute = "greet"
    THEN {[threw |-> FALSE, value |-> greetExecute(input), error |-> PlainError("")]}
    ELSE {[threw |-> FALSE, value |-> ConformingValue(tool.outputSchema),
           error |-> PlainError("")],
          [threw |-> TRUE, value |-> EmptyObject,
           error |-> ToolError(tool.name, "Rate limit exceeded", TRUE)],
          [threw |-> TRUE, value |-> EmptyObject,
           error |-> PlainError("connect ECONNREFUSED")]}

(***************************************************************************)
(* Requests                                                                *)
(***************************************************************************)
\* the body of a POST /mcp: a tools/list request, a tools/call request, or
\* something that is no JSON-RPC message
NoRpc == [op |-> "none", name |-> <<>>, args |-> EmptyObject]
ListRpc == [op |-> "list", name |-> <<>>, args |-> EmptyObject]
CallRpc(name, args) == [op |-> "call", name |-> name, args |-> args]

N_unknown == <<"n", "o", "p", "e", "_", "_", "m", "i", "s", "s", "i", "n", "g">>

GoodHeader == Header(BearerPrefix \o Secret)
BadTokenHeader == Header(BearerPrefix \o <<"b", "a", "d">>)

\* the Authorization headers tried
AuthHeaders ==
    { NoHeader,
      Header(<<"B", "a", "s", "i", "c", " ">> \o Secret),
      Header(<<"b", "e", "a", "r", "e", "r", " ">> \o Secret),
      Header(BearerPrefix),
      BadTokenHeader,
      GoodHeader }

\* the first tool of every server of the list, as (server, tool) pairs
FirstTools ==
    {[serverName |-> servers[i].name, toolName |-> servers[i].tools[1]] : i \in 1..Len(servers)}

\* arguments that give every required field of a schema a value of its type
RequiredArgs(schema) ==
    LET req == {k \in Range(schema.order) :
                   schema.fields[k].required /\ ~schema.fields[k].hasDefault}
    IN [k \in req |-> Val(schema.fields[k].type, "John")]

\* greet's input with every field given
GreetInSpanish == [name |-> Val("string", "John"), language |-> Val("string", "es")]

\* the arguments a tool is called with: none, its required fields, and for
\* greet every field
ArgsFor(p) ==
    {EmptyObject, RequiredArgs(ToolModule(p.serverName, p.toolName).inputSchema)}
    \cup (IF p.toolName = N_greet THEN {GreetInSpanish} ELSE {})

\* the Calls tried: every first tool with each of its arguments, and a name
\* no list has
CallInputs ==
    UNION {LET name == mcpToolName(p.serverName, p.toolName)
           IN {CallRpc(name, a) : a \in ArgsFor(p)} : p \in FirstTools}
    \cup {CallRpc(N_unknown, EmptyObject)}

HttpRequest(method, path, auth, rpc) ==
    [method |-> method, path |-> path, auth |-> auth, rpc |-> rpc]

\* the requests a client may send
RequestInputs ==
    {HttpRequest("GET", "/mcp", a, NoRpc) : a \in {NoHeader, BadTokenHeader, GoodHeader}}
    \cup {HttpRequest("DELETE", "/mcp", a, NoRpc) : a \in {NoHeader, GoodHeader}}
    \cup {HttpRequest("GET", "/health", a, NoRpc) : a \in {NoHeader, BadTokenHeader}}
    \cup {HttpRequest("POST", "/health", NoHeader, NoRpc)}
    \cup {HttpRequest("POST", "/mcp", a, CallRpc(mcpToolName(servers[1].name, servers[1].tools[1]),
                                                 EmptyObject)) :
             a \in AuthHeaders \ {GoodHeader}}
    \cup {HttpRequest("POST", "/mcp", GoodHeader, rpc) :
             rpc \in {NoRpc, ListRpc} \cup CallInputs}

\* a request that was received: the request, what handled it, where its Call
\* handler is suspended, the registry entry it looked up, the modules it
\* imported and the path it imported them from, the error raised in its handler, the response, whether its
\* import evaluated the module (and so built the tool), and the protocol
\* server and transport pairs created for it
Served(req, r, handler, stage, status, body) ==
    [req |-> req, authRan |-> r.authRan, authNext |-> r.authNext, route |-> r.route,
     handler |-> handler, stage |-> stage, status |-> status, body |-> body,
     entry |-> <<>>, imports |-> 0, imported |-> <<>>, raised |-> <<>>, evaluated |-> FALSE,
     server |-> 0]

\* the requests received so far
Requests == BagToSet(reqs)

\* one request of the bag moves on
Replace(q, q2) == (reqs (-) SetToBag({q})) (+) SetToBag({q2})

\* position in the static list of the module a registry entry routes to
ModuleIndex(entry) ==
    CHOOSE i \in 1..Len(PairsOf(servers)) :
        /\ PairsOf(servers)[i].serverName = entry.serverName
        /\ PairsOf(servers)[i].toolName = entry.toolName

\* Handle with the registry lookup moved inside the try block, so that an
\* unknown name is answered by the catch as a tool-level failure
Handle_lookupInsideTry(req, key, registry) ==
    LET r == Route(req, key)
    IN CASE r.route = "none" ->
              Served(req, r, "none", "done", r.status, r.body)
         [] r.route = "health" ->
              Served(req, r, "none", "done", 200,
                     [NoBody EXCEPT !.kind = "health", !.n = Len(registry)])
         [] r.route \in {"getMcp", "deleteMcp"} ->
              Served(req, r, "none", "done", 405, JsonRpcError(-32601, "not supported"))
         [] r.route = "postMcp" /\ req.rpc.op = "none" ->
              Served(req, r, "none", "done", 400, JsonRpcError(-32700, "Parse error"))
         [] r.route = "postMcp" /\ req.rpc.op = "list" ->
              Served(req, r, "list", "done", 200,
                     [NoBody EXCEPT !.kind = "listResult", !.tools = ListTools(registry)])
         [] r.route = "postMcp" /\ req.rpc.op = "call" /\ ~MapHas(registry, req.rpc.name) ->
              [Served(req, r, "call", "done", 200,
                      CallFailure(req.rpc.name, UnknownTool(req.rpc.name)))
                  EXCEPT !.raised = <<UnknownTool(req.rpc.name)>>]
         [] OTHER ->
              [Served(req, r, "call", "import", 0, NoBody)
                  EXCEPT !.entry = <<MapGet(registry, req.rpc.name)>>]

\* what became of a request when it arrived: answered by a middleware, by a
\* route, by the List handler, or left in the Call handler
Handle(req, key, registry) ==
    LET r == Route(req, key)
    IN CASE r.route = "none" ->
              Served(req, r, "none", "done", r.status, r.body)
         [] r.route = "health" ->
              Served(req, r, "none", "done", 200,
                     [NoBody EXCEPT !.kind = "health", !.n = Len(registry)])
         [] r.route = "getMcp" ->
              Served(req, r, "none", "done", 405,
                     JsonRpcError(-32601, "SSE not supported in stateless mode"))
         [] r.route = "deleteMcp" ->
              Served(req, r, "none", "done", 405,
                     JsonRpcError(-32601, "Session termination not supported in stateless mode"))
         [] r.route = "postMcp" /\ req.rpc.op = "none" ->
              Served(req, r, "none", "done", 400, JsonRpcError(-32700, "Parse error"))
         [] r.route = "postMcp" /\ req.rpc.op = "list" ->
              Served(req, r, "list", "done", 200,
                     [NoBody EXCEPT !.kind = "listResult", !.tools = ListTools(registry)])
         [] r.route = "postMcp" /\ req.rpc.op = "call" /\ ~MapHas(registry, req.rpc.name) ->
              [Served(req, r, "call", "done", 200, ProtocolError(UnknownTool(req.rpc.name)))
                  EXCEPT !.raised = <<UnknownTool(req.rpc.name)>>]
         [] OTHER ->
              [Served(req, r, "call", "import", 0, NoBody)
                  EXCEPT !.entry = <<MapGet(registry, req.rpc.name)>>]

\* Receive with one protocol server and transport made by the first POST /mcp
\* and used by every later one
Receive_sharedServer(req) ==
    /\ pc = "serving"
    /\ BagCardinality(reqs) < MaxRequests
    /\ LET h == Handle(req, apiKey, toolRegistry)
           created == IF h.route = "postMcp" /\ instances = 0 THEN 1 ELSE 0
       IN /\ reqs' = reqs (+) SetToBag({[h EXCEPT !.server = created]})
          /\ instances' = instances + created
    /\ UNCHANGED <<pc, exitCode, apiKey, servers, modules, idx, toolRegistry, errorLog, listening, calls, moduleCache, currentLevel, console, posts>>

\* an HTTP request arrives and runs until it is answered or its Call handler
\* suspends at `await import(modulePath)`; the POST /mcp route makes a
\* transport and a protocol server for it
Receive(req) ==
    /\ pc = "serving"
    /\ BagCardinality(reqs) < MaxRequests
    /\ LET h == Handle(req, apiKey, toolRegistry)
           created == IF h.route = "postMcp" THEN 1 ELSE 0
       IN /\ reqs' = reqs (+) SetToBag({[h EXCEPT !.server = created]})
          /\ instances' = instances + created
    /\ UNCHANGED <<pc, exitCode, apiKey, servers, modules, idx, toolRegistry, errorLog, listening, calls, moduleCache, currentLevel, console, posts>>

\* the module path a registry entry is imported from with its hyphens
\* rewritten as in the wire name
callModulePath_normalized(entry) ==
    <<".", "/", "s", "e", "r", "v", "e", "r", "s", "/">> \o normalizeServerName(entry.serverName)
        \o <<"/">> \o entry.toolName \o <<".", "j", "s">>

\* the Call handler's `./servers/${toolEntry.serverName}/${toolEntry.toolName}.js`
callModulePath(entry) ==
    <<".", "/", "s", "e", "r", "v", "e", "r", "s", "/">> \o entry.serverName
        \o <<"/">> \o entry.toolName \o <<".", "j", "s">>

\* loadToolMetadata's `./servers/${serverName}/${toolName}.js`
probeModulePath(serverName, toolName) ==
    <<".", "/", "s", "e", "r", "v", "e", "r", "s", "/">> \o serverName
        \o <<"/">> \o toolName \o <<".", "j", "s">>

\* a handler whose try block raised `error`, rethrowing it instead of answering
HandlerCatch_rethrow(q, error) ==
    [q EXCEPT !.stage = "done", !.status = 200, !.raised = <<error>>,
              !.body = ProtocolError(error)]

\* the catch block of the Call handler: every error raised inside the try
\* is logged and answered as a tool-level failure
HandlerCatch(q, error) ==
    [q EXCEPT !.stage = "done", !.status = 200, !.raised = <<error>>,
              !.body = CallFailure(q.req.rpc.name, error)]

\* the Call handler after `await import(modulePath)`: it checks the export and
\* suspends at `await tool.execute(args || {})`, or throws into its catch
AfterImport(q, module) ==
    IF ~module.loads
    THEN HandlerCatch([q EXCEPT !.imports = 1], PlainError("Cannot find module"))
    ELSE IF ~module.hasTool \/ ~module.hasExecute
    THEN HandlerCatch([q EXCEPT !.imports = 1],
                      PlainError("Tool does not have an execute function"))
    ELSE [q EXCEPT !.stage = "execute", !.imports = 1]

\* CallImport keeping the loaded tool in the registry entry it looked up
CallImport_cachesTool(q) ==
    /\ pc = "serving"
    /\ q.stage = "import"
    /\ LET entry == q.entry[1]
           i == ModuleIndex(entry)
       IN /\ reqs' = Replace(q, AfterImport([q EXCEPT !.evaluated = i \notin moduleCache,
                                               !.imported = callModulePath(entry)],
                                            ImportModule(modules[i], entry.serverName,
                                                         entry.toolName)))
          /\ moduleCache' = ImportInto(moduleCache, i)
          /\ toolRegistry' =
                MapSet(toolRegistry, entry.key,
                       [serverName |-> entry.serverName, toolName |-> entry.toolName,
                        metadata |-> [entry.metadata EXCEPT
                                         !.description = <<"l", "o", "a", "d", "e", "d">>]])
    /\ UNCHANGED <<pc, exitCode, apiKey, servers, modules, idx, errorLog, listening, calls, instances, currentLevel, console, posts>>

\* `await import(modulePath)` settles for one suspended Call
CallImport(q) ==
    /\ pc = "serving"
    /\ q.stage = "import"
    /\ LET entry == q.entry[1]
           i == ModuleIndex(entry)
       IN /\ reqs' = Replace(q, AfterImport([q EXCEPT !.evaluated = i \notin moduleCache,
                                               !.imported = callModulePath(entry)],
                                            ImportModule(modules[i], entry.serverName,
                                                         entry.toolName)))
          /\ moduleCache' = ImportInto(moduleCache, i)
    /\ UNCHANGED <<pc, exitCode, apiKey, servers, modules, idx, toolRegistry, errorLog, listening, calls, instances, currentLevel, console, posts>>

\* the Call handler after `await tool.execute(args || {})`: the result is
\* serialized, or the error is caught and reported
AfterExecute(q, out) ==
    IF out.threw
    THEN HandlerCatch(q, out.error)
    ELSE [q EXCEPT !.stage = "done", !.status = 200, !.body = CallSuccess(out.value)]

\* CallExecute with the arguments kept in a variable of the module that every
\* Call handler writes on entry: execute receives the arguments of whichever
\* Call is suspended in execute
CallExecute_sharedArgs(q) ==
    /\ pc = "serving"
    /\ q.stage = "execute"
    /\ LET entry == q.entry[1]
           tool == ToolModule(entry.serverName, entry.toolName)
       IN \E other \in {o \in Requests : o.stage = "execute"} :
             \E out \in ExecuteOutcomes(tool, other.req.rpc.args) :
                reqs' = Replace(q, AfterExecute(q, out))
    /\ UNCHANGED <<pc, exitCode, apiKey, servers, modules, idx, toolRegistry, errorLog, listening, calls, moduleCache, instances, currentLevel, console, posts>>

\* `await tool.execute(args || {})` settles for one suspended Call
CallExecute(q) ==
    /\ pc = "serving"
    /\ q.stage = "execute"
    /\ LET entry == q.entry[1]
           tool == ToolModule(entry.serverName, entry.toolName)
       IN \E out \in ExecuteOutcomes(tool, q.req.rpc.args) :
             reqs' = Replace(q, AfterExecute(q, out))
    /\ UNCHANGED <<pc, exitCode, apiKey, servers, modules, idx, toolRegistry, errorLog, listening, calls, moduleCache, instances, currentLevel, console, posts>>

(***************************************************************************)
(* Validation Wrapper: the call function createTool returns                *)
(***************************************************************************)
\* the ZodError input.parse and output.parse throw
ZodError(issues) ==
    [class |-> "ZodError", tool |-> <<>>, message |-> "", retryable |-> FALSE,
     issues |-> issues]

\* a thrown value that is no Error object (throw 'text', a bare rejection)
NonError ==
    [class |-> "other", tool |-> <<>>, message |-> "", retryable |-> FALSE,
     issues |-> <<>>]

RECURSIVE JoinIssues(_, _)
\* error.errors.map(e => `${e.path.join('.')}: ${e.message}`).join(', '),
\* from issue i on
JoinIssues(issues, i) ==
    IF i > Len(issues) THEN ""
    ELSE issues[i].path \o ": " \o issues[i].message
            \o (IF i < Len(issues) THEN ", " ELSE "") \o JoinIssues(issues, i + 1)

\* the catch block of call reporting only the first issue of a ZodError
callCatch_firstIssue(name, error) ==
    IF error.class = "ZodError"
    THEN [ToolError(name, "Validation failed: " \o JoinIssues(SubSeq(error.issues, 1, 1), 1),
                    FALSE)
             EXCEPT !.issues = error.issues]
    ELSE IF error.class = "ToolError" THEN error
    ELSE ToolError(name, IF error.class = "Error" THEN error.message
                         ELSE "Unknown error occurred", FALSE)

\* the catch block of call wrapping whatever was thrown, a ToolError included
callCatch_rewrap(name, error) ==
    IF error.class = "ZodError"
    THEN [ToolError(name, "Validation failed: " \o JoinIssues(error.issues, 1), FALSE)
             EXCEPT !.issues = error.issues]
    ELSE ToolError(name, IF error.class \in {"Error", "ToolError"} THEN error.message
                         ELSE "Unknown error occurred", FALSE)

\* the catch block of call: a ZodError becomes a ToolError listing the
\* issues (the ZodError is its cause), a ToolError is rethrown as it is, and
\* anything else is wrapped
callCatch(name, error) ==
    IF error.class = "ZodError"
    THEN [ToolError(name, "Validation failed: " \o JoinIssues(error.issues, 1), FALSE)
             EXCEPT !.issues = error.issues]
    ELSE IF error.class = "ToolError" THEN error
    ELSE ToolError(name, IF error.class = "Error" THEN error.message
                         ELSE "Unknown error occurred", FALSE)

\* one invocation of call: the tool's module, the raw input, where the
\* invocation is, the validated input, how often execute was invoked, what
\* execute threw, and the value it resolved with or the error it rejected with
Invocation(path, rawInput, stage, input, error) ==
    [path |-> path, rawInput |-> rawInput, stage |-> stage, input |-> input,
     executed |-> 0, thrown |-> <<>>, value |-> EmptyObject, error |-> error]

\* call up to `await execute(validatedInput)`: input.parse(rawInput) throws
\* into the catch, or the invocation suspends in execute
callStart(path, rawInput) ==
    LET tool == ToolModule(path.serverName, path.toolName)
        parsed == ZodParse(tool.inputSchema, rawInput)
    IN IF parsed.issues # <<>>
       THEN Invocation(path, rawInput, "rejected", EmptyObject,
                       <<callCatch(tool.name, ZodError(parsed.issues))>>)
       ELSE Invocation(path, rawInput, "execute", parsed.value, <<>>)

\* what else a collaborator's execute can do: resolve with a value its
\* output validator rejects, throw a value that is no Error, throw the
\* ZodError of a parse of its own, or throw a ToolError made for another tool
CollaboratorFaults(tool) ==
    IF tool.execute = "greet" THEN {}
    ELSE {[threw |-> FALSE, value |-> EmptyObject, error |-> PlainError("")],
          [threw |-> TRUE, value |-> EmptyObject, error |-> NonError],
          [threw |-> TRUE, value |-> EmptyObject,
           error |-> ZodError(<< [path |-> "items", message |-> "Required"] >>)],
          [threw |-> TRUE, value |-> EmptyObject,
           error |-> ToolError(<<"c", "o", "m", "p", "o", "s", "i", "o">>, "HTTP 500", FALSE)]}

\* call from the point where execute settles: output.parse(result) and the
\* return, or the catch
callSettle(c, out) ==
    LET tool == ToolModule(c.path.serverName, c.path.toolName)
        parsed == ZodParse(tool.outputSchema, out.value)
        ran == [c EXCEPT !.executed = c.executed + 1]
    IN IF out.threw
       THEN [ran EXCEPT !.stage = "rejected", !.thrown = <<out.error>>,
                        !.error = <<callCatch(tool.name, out.error)>>]
       ELSE IF parsed.issues # <<>>
       THEN [ran EXCEPT !.stage = "rejected",
                        !.error = <<callCatch(tool.name, ZodError(parsed.issues))>>]
       ELSE [ran EXCEPT !.stage = "resolved", !.value = parsed.value]

\* the tools called in-process and the inputs they are called with
CalledTools ==
    {[serverName |-> N_example, toolName |-> N_greet],
     [serverName |-> N_youtube, toolName |-> N_getSubscriptions]}

RawInputs(path) ==
    IF path.toolName = N_greet
    THEN {EmptyObject,
          [name |-> Val("string", "John")],
          [name |-> Val("string", "John"), language |-> Val("string", "es")],
          [name |-> Val("number", "123")],
          [language |-> Val("string", "xx")],
          [name |-> Val("number", "123"), language |-> Val("number", "7")]}
    ELSE {EmptyObject,
          [maxResults |-> Val("number", "10")],
          [maxResults |-> Val("string", "many")]}

\* the invocations made so far
Invocations == BagToSet(calls)

\* a caller (a test, a script of the code-execution mode) invokes
\* tool.call(rawInput)
call(path, rawInput) ==
    /\ BagCardinality(calls) < MaxCalls
    /\ calls' = calls (+) SetToBag({callStart(path, rawInput)})
    /\ UNCHANGED <<pc, exitCode, apiKey, servers, modules, idx, toolRegistry, errorLog, listening, reqs, moduleCache, instances, currentLevel, console, posts>>

\* `await execute(validatedInput)` settles for one suspended invocation
callExecute(c) ==
    /\ c.stage = "execute"
    /\ LET tool == ToolModule(c.path.serverName, c.path.toolName)
       IN \E out \in ExecuteOutcomes(tool, c.input) \cup CollaboratorFaults(tool) :
             calls' = (calls (-) SetToBag({c})) (+) SetToBag({callSettle(c, out)})
    /\ UNCHANGED <<pc, exitCode, apiKey, servers, modules, idx, toolRegistry, errorLog, listening, reqs, moduleCache, instances, currentLevel, console, posts>>

(***************************************************************************)
(* Process signals (HTTP transport)                                        *)
(***************************************************************************)
\* process.on('SIGINT' | 'SIGTERM'): await stopMcpServer(), which only logs,
\* then process.exit(0); the http.Server made by app.listen is not closed
onSignal ==
    /\ pc \in {"boot", "registering", "serving"}
    /\ pc' = "exited"
    /\ exitCode' = 0
    /\ UNCHANGED <<apiKey, servers, modules, idx, toolRegistry, errorLog, listening, reqs, calls, moduleCache, instances, currentLevel, console, posts>>

(***************************************************************************)
(* Logger                                                                  *)
(***************************************************************************)
\* one line written: its level, whether a message leads it and whether a
\* JSON document follows
Line(level, text, json) == [level |-> level, text |-> text, json |-> json]

\* log with the string branch written by console.log
log_stringToStdout(level, msgOrObj, msg) ==
    IF LessThan(LOG_LEVELS[level], currentLevel)
    THEN [threw |-> FALSE, stdout |-> <<>>, stderr |-> <<>>]
    ELSE IF msgOrObj.type = "string"
    THEN [threw |-> FALSE, stdout |-> <<Line(level, msgOrObj.val, FALSE)>>, stderr |-> <<>>]
    ELSE IF msgOrObj.type = "circular"
    THEN [threw |-> TRUE, stdout |-> <<>>, stderr |-> <<>>]
    ELSE IF msg.type = "string" /\ msg.val # ""
    THEN [threw |-> FALSE, stdout |-> <<>>, stderr |-> <<Line(level, msg.val, TRUE)>>]
    ELSE [threw |-> FALSE, stdout |-> <<>>, stderr |-> <<Line(level, "", TRUE)>>]

\* log(level, msgOrObj, msg): what one call writes.  Below the threshold it
\* writes nothing; a string goes out alone; an object goes out as
\* JSON.stringify(msgOrObj, null, 2), after msg when msg is truthy;
\* JSON.stringify throws on an object that contains itself
log(level, msgOrObj, msg) ==
    IF LessThan(LOG_LEVELS[level], currentLevel)
    THEN [threw |-> FALSE, stdout |-> <<>>, stderr |-> <<>>]
    ELSE IF msgOrObj.type = "string"
    THEN [threw |-> FALSE, stdout |-> <<>>, stderr |-> <<Line(level, msgOrObj.val, FALSE)>>]
    ELSE IF msgOrObj.type = "circular"
    THEN [threw |-> TRUE, stdout |-> <<>>, stderr |-> <<>>]
    ELSE IF msg.type = "string" /\ msg.val # ""
    THEN [threw |-> FALSE, stdout |-> <<>>, stderr |-> <<Line(level, msg.val, TRUE)>>]
    ELSE [threw |-> FALSE, stdout |-> <<>>, stderr |-> <<Line(level, "", TRUE)>>]

\* the values of LOG_LEVEL tried
LogEnvs == {NoEnv, "debug", "warn", "fatal", "verbose", "toString"}

\* the first arguments tried: a message, an object, an object that contains itself
LogSubjects == {Val("string", "Server started"), Val("object", "{tool}"), Val("circular", "")}

\* the second arguments tried: none, the empty string, a message
LogMessages == {Undefined, Val("string", ""), Val("string", "Registered tool metadata")}

\* logger.debug / info / warn / error / fatal called once, in any state of
\* the process that is still running
logger(level, msgOrObj, msg) ==
    /\ pc # "exited"
    /\ Len(console.stdout) + Len(console.stderr) < MaxLogs
    /\ LET out == log(level, msgOrObj, msg)
       IN console' = [stdout |-> console.stdout \o out.stdout,
                      stderr |-> console.stderr \o out.stderr]
    /\ UNCHANGED <<pc, exitCode, apiKey, servers, modules, idx, toolRegistry, errorLog, listening, reqs, calls, moduleCache, instances, currentLevel, posts>>

\* the HTTP process with its logger, for each value of LOG_LEVEL; the
\* modules of the static list are intact
InitLog ==
    /\ pc = "boot"
    /\ exitCode = -1
    /\ apiKey \in {<<>>, Secret}
    /\ servers = serverRegistry
    /\ modules = [i \in 1..Len(PairsOf(servers)) |-> "ok"]
    /\ idx = 1
    /\ toolRegistry = <<>>
    /\ errorLog = {}
    /\ listening = FALSE
    /\ reqs = EmptyBag
    /\ calls = EmptyBag
    /\ moduleCache = {}
    /\ instances = 0
    /\ currentLevel \in {currentLevelOf(env) : env \in LogEnvs}
    /\ console = NoOutput
    /\ posts = NoPosts

NextLog ==
    \/ main
    \/ initializeToolRegistry
    \/ startMcpServer
    \/ onSignal
    \/ \E level \in DOMAIN LOG_LEVELS : \E msgOrObj \in LogSubjects : \E msg \in LogMessages :
          logger(level, msgOrObj, msg)

SpecLog == InitLog /\ [][NextLog]_vars

(***************************************************************************)
(* The stdio transport: the same registry and handlers behind one protocol *)
(* server connected to stdin/stdout                                        *)
(***************************************************************************)
\* `${serverMeta.name}__${camelToSnake(toolName)}`
stdioToolName(serverName, toolName) ==
    serverName \o <<"_", "_">> \o camelToSnake(toolName)

\* loadToolMetadata(serverName, toolName) of the stdio version
stdioLoadToolMetadata(serverName, toolName, kind) ==
    LET module == ImportModule(kind, serverName, toolName)
        tool == module.tool
        name == serverName \o <<"_", "_">> \o camelToSnake(toolName)
    IN IF ~module.loads
       THEN [ok |-> FALSE, error |-> PlainError("Cannot find module")]
       ELSE IF ~module.hasTool
       THEN [ok |-> FALSE, error |-> PlainError("Tool not found in module")]
       ELSE IF ~module.convertible
       THEN [ok |-> FALSE, error |-> PlainError("schema conversion failed")]
       ELSE [ok |-> TRUE,
             metadata |->
                [name |-> name,
                 description |-> extractToolDescription(tool, serverName, toolName),
                 inputSchema |->
                    flattenSchema(zodToJsonSchema(tool.inputSchema,
                                                  name \o <<"_", "i", "n", "p", "u", "t">>))]]

\* the process of the stdio version starts in startMcpServer()
InitStdio ==
    /\ pc = "registering"
    /\ exitCode = -1
    /\ apiKey = <<>>
    /\ servers \in {serverRegistry, readmeCatalog}
    /\ modules \in ModulePatterns(Len(PairsOf(servers)))
    /\ idx = 1
    /\ toolRegistry = <<>>
    /\ errorLog = {}
    /\ listening = FALSE
    /\ reqs = EmptyBag
    /\ calls = EmptyBag
    /\ moduleCache = {}
    /\ instances = 1
    /\ currentLevel = currentLevelOf(NoEnv)
    /\ console = NoOutput
    /\ posts = NoPosts

\* one iteration of the loops of the stdio initializeToolRegistry
stdioInitializeToolRegistry ==
    /\ pc = "registering"
    /\ idx <= Len(PairsOf(servers))
    /\ LET pair == PairsOf(servers)[idx]
           mcpName == stdioToolName(pair.serverName, pair.toolName)
       IN \E kind \in (IF modules[idx] = "broken" THEN BrokenKinds ELSE {modules[idx]}) :
            LET loaded == stdioLoadToolMetadata(pair.serverName, pair.toolName, kind)
            IN /\ moduleCache' = ImportInto(moduleCache, idx)
               /\ IF loaded.ok
                  THEN /\ toolRegistry' =
                             MapSet(toolRegistry, mcpName,
                                    [serverName |-> pair.serverName,
                                     toolName |-> pair.toolName,
                                     metadata |-> loaded.metadata])
                       /\ UNCHANGED errorLog
                  ELSE /\ errorLog' = errorLog \cup {idx}
                       /\ UNCHANGED toolRegistry
    /\ idx' = idx + 1
    /\ UNCHANGED <<pc, exitCode, apiKey, servers, modules, listening, reqs, calls, instances, currentLevel, console, posts>>

\* startMcpServer() of the stdio version after the registry is built:
\* server.connect(new StdioServerTransport())
stdioStartMcpServer ==
    /\ pc = "registering"
    /\ idx > Len(PairsOf(servers))
    /\ pc' = "serving"
    /\ listening' = TRUE
    /\ UNCHANGED <<exitCode, apiKey, servers, modules, idx, toolRegistry, errorLog, reqs, calls, moduleCache, instances, currentLevel, console, posts>>

\* the List and Call handlers of the stdio server for one message read from
\* stdin: no route and no authentication come before them
stdioHandle(rpc, registry) ==
    LET req == HttpRequest("STDIN", "", NoHeader, rpc)
        r == [authRan |-> FALSE, authNext |-> FALSE, route |-> "stdio"]
    IN CASE rpc.op = "list" ->
              Served(req, r, "list", "done", 0,
                     [NoBody EXCEPT !.kind = "listResult", !.tools = ListTools(registry)])
         [] rpc.op = "call" /\ ~MapHas(registry, rpc.name) ->
              [Served(req, r, "call", "done", 0, ProtocolError(UnknownTool(rpc.name)))
                  EXCEPT !.raised = <<UnknownTool(rpc.name)>>]
         [] OTHER ->
              [Served(req, r, "call", "import", 0, NoBody)
                  EXCEPT !.entry = <<MapGet(registry, rpc.name)>>]

\* the messages a stdio client may send: List, and a Call of every first
\* tool by the name the registry gives it and by the name the tool declares
stdioInputs ==
    {ListRpc, CallRpc(N_unknown, EmptyObject)}
    \cup {CallRpc(stdioToolName(p.serverName, p.toolName), EmptyObject) : p \in FirstTools}
    \cup {CallRpc(ToolModule(p.serverName, p.toolName).name, EmptyObject) : p \in FirstTools}

\* a message arrives on stdin and runs until it is answered or its Call
\* handler suspends at `await import(modulePath)`
stdioReceive(rpc) ==
    /\ pc = "serving"
    /\ BagCardinality(reqs) < MaxRequests
    /\ reqs' = reqs (+) SetToBag({[stdioHandle(rpc, toolRegistry) EXCEPT !.server = 1]})
    /\ UNCHANGED <<pc, exitCode, apiKey, servers, modules, idx, toolRegistry, errorLog, listening, calls, moduleCache, instances, currentLevel, console, posts>>

\* process.on('SIGINT' | 'SIGTERM') of the stdio version, up to the end of
\* `await stopMcpServer()`: server.close() closes the transport
stdioOnSignal ==
    /\ pc \in {"registering", "serving"}
    /\ pc' = "stopping"
    /\ listening' = FALSE
    /\ UNCHANGED <<exitCode, apiKey, servers, modules, idx, toolRegistry, errorLog, reqs, calls, moduleCache, instances, currentLevel, console, posts>>

\* the rest of the stdio signal handler: process.exit(0)
stdioExit ==
    /\ pc = "stopping"
    /\ pc' = "exited"
    /\ exitCode' = 0
    /\ UNCHANGED <<apiKey, servers, modules, idx, toolRegistry, errorLog, listening, reqs, calls, moduleCache, instances, currentLevel, console, posts>>

(***************************************************************************)
(* Specifications                                                          *)
(***************************************************************************)
Next ==
    \/ main
    \/ initializeToolRegistry
    \/ startMcpServer
    \/ \E req \in RequestInputs : Receive(req)
    \/ \E q \in Requests : CallImport(q)
    \/ \E q \in Requests : CallExecute(q)

Spec == Init /\ [][Next]_vars

SpecScenario == InitScenario /\ [][Next]_vars

\* either static list
SpecCatalogs == InitWith({serverRegistry, scenarioCatalog}) /\ [][Next]_vars

\* a process that has loaded the tool modules and calls them in-process,
\* without starting the server
InitCall ==
    /\ pc = "boot"
    /\ exitCode = -1
    /\ apiKey \in {<<>>, Secret}
    /\ servers = serverRegistry
    /\ modules = [i \in 1..Len(PairsOf(serverRegistry)) |-> "ok"]
    /\ idx = 1
    /\ toolRegistry = <<>>
    /\ errorLog = {}
    /\ listening = FALSE
    /\ reqs = EmptyBag
    /\ calls = EmptyBag
    /\ moduleCache = 1..Len(PairsOf(serverRegistry))
    /\ instances = 0
    /\ currentLevel = currentLevelOf(NoEnv)
    /\ console = NoOutput
    /\ posts = NoPosts

NextCall ==
    \/ \E path \in CalledTools : \E rawInput \in RawInputs(path) : call(path, rawInput)
    \/ \E c \in Invocations : callExecute(c)

SpecCall == InitCall /\ [][NextCall]_vars

\* the process as shipped, with SIGINT and SIGTERM delivered to it
NextSignals == Next \/ onSignal

SpecSignals == Init /\ [][NextSignals]_vars

\* the stdio version: registration, messages on stdin, signals
NextStdio ==
    \/ stdioInitializeToolRegistry
    \/ stdioStartMcpServer
    \/ \E rpc \in stdioInputs : stdioReceive(rpc)
    \/ \E q \in Requests : CallImport(q)
    \/ \E q \in Requests : CallExecute(q)
    \/ stdioOnSignal
    \/ stdioExit

SpecStdio == InitStdio /\ [][NextStdio]_vars

\* the HTTP process with the servers the README documents
SpecReadme == InitWith({serverRegistry, readmeCatalog}) /\ [][Next]_vars

\* the HTTP process with a static list in which two names collide
SpecColliding == InitWith({collidingCatalog}) /\ [][Next]_vars

(***************************************************************************)
(* AI summarizer: summarize(text) and its truncation fallback              *)
(***************************************************************************)
Terminators == {".", "!", "?"}
Whitespace == {" ", "\n", "\t"}

RECURSIVE trimStart(_)
trimStart(s) == IF s # <<>> /\ Head(s) \in Whitespace THEN trimStart(Tail(s)) ELSE s

RECURSIVE trimEnd(_)
trimEnd(s) ==
    IF s # <<>> /\ s[Len(s)] \in Whitespace THEN trimEnd(SubSeq(s, 1, Len(s) - 1)) ELSE s

\* String.prototype.trim
trim(s) == trimEnd(trimStart(s))

\* String.prototype.substring(start, end) for 0 <= start <= end
substring(s, start, end) == SubSeq(s, start + 1, IF end < Len(s) THEN end ELSE Len(s))

\* text.split(/[.!?]+/): the pieces between the runs of terminators, the
\* empty pieces before a leading run and after a trailing run included
split(text) ==
    LET n == Len(text)
        isT(i) == text[i] \in Terminators
        starts == {i \in 1..n : ~isT(i) /\ (i = 1 \/ isT(i - 1))}
        endOf(i) == CHOOSE k \in i..n :
                        (\A j \in i..k : ~isT(j)) /\ (k = n \/ isT(k + 1))
        nth(k) == CHOOSE i \in starts : Cardinality({j \in starts : j < i}) = k - 1
        lead == IF n = 0 \/ isT(1) THEN << <<>> >> ELSE <<>>
        trail == IF n > 0 /\ isT(n) THEN << <<>> >> ELSE <<>>
    IN lead \o [k \in 1..Cardinality(starts) |-> SubSeq(text, nth(k), endOf(nth(k)))] \o trail

\* truncateFallback(text): the first two sentences longer than ten
\* characters, or else the first 200 characters
truncateFallback(text) ==
    LET sentences == SelectSeq(split(text), LAMBDA s : Len(trim(s)) > 10)
    IN IF Len(sentences) >= 2
       THEN trim(sentences[1]) \o <<".", " ">> \o trim(sentences[2]) \o <<".">>
       ELSE trim(substring(text, 0, 200))
                \o (IF Len(text) > 200 THEN <<".", ".", ".">> ELSE <<>>)

\* one invocation of summarize: its arguments and configuration, where it
\* is suspended, how its promise settled and with what, the text it sent,
\* whether it issued a provider request, and how that request ended
Summary(text, key, provider, stage, settled, value, sent, contacted) ==
    [text |-> text, key |-> key, provider |-> provider, stage |-> stage,
     settled |-> settled, value |-> value, sent |-> sent, contacted |-> contacted,
     cause |-> "none"]

\* summarize up to its first await: '' for a blank text, the fallback
\* without a key, else the request to the provider is issued
summarizeStart(text, key, provider, maxInputChars) ==
    IF text = <<>> \/ Len(trim(text)) = 0
    THEN Summary(text, key, provider, "done", "fulfilled", <<>>, <<>>, FALSE)
    ELSE IF key = ""
    THEN Summary(text, key, provider, "done", "fulfilled", truncateFallback(text), <<>>, FALSE)
    ELSE Summary(text, key, provider, "fetch", "pending", <<>>,
                 IF Len(text) > maxInputChars
                 THEN substring(text, 0, maxInputChars) \o <<".", ".", ".">>
                 ELSE text,
                 TRUE)

\* the catch block of summarize rethrowing the error
summarizeCatch_rethrow(s, cause) ==
    [s EXCEPT !.stage = "done", !.settled = "rejected", !.cause = cause]

\* the catch block of summarize: log a warning, return the fallback
summarizeCatch(s, cause) ==
    [s EXCEPT !.stage = "done", !.settled = "fulfilled", !.cause = cause,
              !.value = truncateFallback(s.text)]

\* how the provider request may end: fetch rejects (network error, timeout
\* of AbortSignal.timeout), the provider answers with a non-OK status, or it
\* answers OK with a summary, with no summary, or with a body that is no JSON
FetchOutcomes ==
    {"networkError", "timeout", "status401", "status500", "okContent", "okEmpty", "okBadJson"}

\* the summary a provider returns, with the whitespace around it
ProviderContent == <<" ", "T", "w", "o", " ", "s", "e", "n", "t", "e", "n", "c", "e", "s", ".", " ", "D", "o", "n", "e", ".", " ">>

\* callOpenAICompatible / callAnthropic after `await fetch(...)`: throw on a
\* rejected fetch, on !response.ok and on a rejected response.json(), else
\* return the trimmed content or ''
summarizeSettle(s, outcome) ==
    IF outcome \in {"networkError", "timeout", "status401", "status500", "okBadJson"}
    THEN summarizeCatch(s, outcome)
    ELSE [s EXCEPT !.stage = "done", !.settled = "fulfilled", !.cause = outcome,
                   !.value = IF outcome = "okContent" THEN trim(ProviderContent) ELSE <<>>]

T_blank == <<" ", "\n", " ">>
T_short == <<"S", "h", "o", "r", "t", " ", "n", "o", "t", "e", ".">>
T_sentences == <<"F", "i", "r", "s", "t", " ", "s", "e", "n", "t", "e", "n", "c", "e", " ", "i", "s", " ", "h", "e", "r", "e", ".", " ", "S", "e", "c", "o", "n", "d", " ", "s", "e", "n", "t", "e", "n", "c", "e", " ", "f", "o", "l", "l", "o", "w", "s", "!", " ", " ", "T", "h", "i", "r", "d", " ", "o", "n", "e", " ", "e", "n", "d", "s", " ", "i", "t", "?">>
T_long == [i \in 1..205 |-> IF i % 7 = 0 THEN " " ELSE "a"]

\* the texts summarized
SummarizeTexts == {<<>>, T_blank, T_short, T_sentences, T_long}

\* config.ai.apiKey: env('AI_API_KEY', '')
AiKeys == {"", "sk-test"}

\* config.ai.provider.toLowerCase()
AiProviders == {"openai", "anthropic"}

\* maxInputChars: the default, and a limit shorter than the texts
MaxInputChars == {4000, 20}

\* summarize(text, maxInputChars) is called
summarize(text, key, provider, maxInputChars) ==
    /\ BagCardinality(calls) < MaxSummaries
    /\ calls' = calls (+) SetToBag({summarizeStart(text, key, provider, maxInputChars)})
    /\ UNCHANGED <<pc, exitCode, apiKey, servers, modules, idx, toolRegistry, errorLog, listening, reqs, moduleCache, instances, currentLevel, console, posts>>

\* the provider request of one suspended summarize ends
summarizeFetch(s) ==
    /\ s.stage = "fetch"
    /\ \E outcome \in FetchOutcomes :
          calls' = (calls (-) SetToBag({s})) (+) SetToBag({summarizeSettle(s, outcome)})
    /\ UNCHANGED <<pc, exitCode, apiKey, servers, modules, idx, toolRegistry, errorLog, listening, reqs, moduleCache, instances, currentLevel, console, posts>>

NextSummarize ==
    \/ \E text \in SummarizeTexts : \E key \in AiKeys : \E provider \in AiProviders :
          \E maxInputChars \in MaxInputChars : summarize(text, key, provider, maxInputChars)
    \/ \E s \in BagToSet(calls) : summarizeFetch(s)

\* summarize is a function of its module: the server's state plays no part
SpecSummarize == InitCall /\ [][NextSummarize]_vars

(***************************************************************************)
(* Composio client: callComposioTool(toolName, params)                     *)
(***************************************************************************)
N_composio_client == <<"c", "o", "m", "p", "o", "s", "i", "o", "_", "c", "l", "i", "e", "n", "t">>

\* config.composio: apiKey, mcpEndpoint, userId, each '' when its variable
\* is not set
ComposioConfigs ==
    {[apiKey |-> k, mcpEndpoint |-> e, userId |-> u] :
        k \in {"", "key"}, e \in {"", "https://mcp.composio.dev"}, u \in {"", "user"}}

\* an error axios.post rejects with (an AxiosError: its HTTP status, 0 when
\* no response came, and its code), or an exception raised while the
\* response is read (no AxiosError)
ThrownError(isAxios, status, code, message, dataError) ==
    [isAxios |-> isAxios, status |-> status, code |-> code, message |-> message,
     dataError |-> dataError]

\* how `await axios.post(...)` and the reading of its response may end
ComposioOutcomes ==
    {[ok |-> TRUE, data |-> d, error |-> ThrownError(FALSE, 0, "", "", "")] :
        d \in {"successful", "unsuccessful", "sse", "plain"}}
    \cup {[ok |-> FALSE, data |-> "none", error |-> e] :
            e \in {ThrownError(TRUE, 401, "ERR_BAD_REQUEST", "Request failed with status code 401", ""),
                   ThrownError(TRUE, 429, "ERR_BAD_REQUEST", "Request failed with status code 429", ""),
                   ThrownError(TRUE, 404, "ERR_BAD_REQUEST", "Request failed with status code 404", "not found"),
                   ThrownError(TRUE, 500, "ERR_BAD_RESPONSE", "Request failed with status code 500", ""),
                   ThrownError(TRUE, 0, "ECONNABORTED", "timeout of 30000ms exceeded", ""),
                   ThrownError(TRUE, 0, "ETIMEDOUT", "connect ETIMEDOUT", ""),
                   ThrownError(TRUE, 0, "ECONNREFUSED", "connect ECONNREFUSED", ""),
                   ThrownError(FALSE, 0, "", "Cannot read properties of null", "")}}

\* what callComposioTool settles with: a thrown error or a returned response
Thrown(error) == [threw |-> TRUE, error |-> error, successful |-> FALSE, errorText |-> ""]
Returned(successful, errorText) ==
    [threw |-> FALSE, error |-> NonError, successful |-> successful, errorText |-> errorText]

\* the catch block of callComposioTool treating 429 like every other status
composioCatch_rateLimitReturned(error) ==
    IF error.isAxios /\ error.status = 401
    THEN Thrown(ToolError(N_composio_client,
                          "Composio authentication failed. Check COMPOSIO_API_KEY.", FALSE))
    ELSE IF error.isAxios /\ error.code \in {"ECONNABORTED", "ETIMEDOUT"}
    THEN Thrown(ToolError(N_composio_client, "Composio request timeout (30000ms)", TRUE))
    ELSE IF error.isAxios /\ error.status = 0
    THEN Thrown(ToolError(N_composio_client, "Network error: " \o error.message, TRUE))
    ELSE Returned(FALSE, IF error.dataError # "" THEN error.dataError ELSE error.message)

\* the catch block of callComposioTool: for an AxiosError 401, 429, a
\* timeout code and a missing response each throw a ToolError; everything
\* else is returned as {successful: false, error}
composioCatch(error) ==
    IF error.isAxios /\ error.status = 401
    THEN Thrown(ToolError(N_composio_client,
                          "Composio authentication failed. Check COMPOSIO_API_KEY.", FALSE))
    ELSE IF error.isAxios /\ error.status = 429
    THEN Thrown(ToolError(N_composio_client,
                          "Composio rate limit exceeded. Wait before retrying.", TRUE))
    ELSE IF error.isAxios /\ error.code \in {"ECONNABORTED", "ETIMEDOUT"}
    THEN Thrown(ToolError(N_composio_client, "Composio request timeout (30000ms)", TRUE))
    ELSE IF error.isAxios /\ error.status = 0
    THEN Thrown(ToolError(N_composio_client, "Network error: " \o error.message, TRUE))
    ELSE Returned(FALSE, IF error.dataError # "" THEN error.dataError ELSE error.message)

\* one invocation of callComposioTool: the configuration it ran under,
\* where it is suspended, whether a request was sent, how the request ended
\* and what the invocation settled with
ComposioCall(toolName, cfg, stage, requested, result) ==
    [toolName |-> toolName, cfg |-> cfg, stage |-> stage, requested |-> requested,
     outcome |-> "pending", cause |-> ThrownError(FALSE, 0, "", "", ""), result |-> result]

\* callComposioTool up to `await axios.post(...)`
composioStart(toolName, cfg) ==
    IF cfg.apiKey = "" \/ cfg.mcpEndpoint = "" \/ cfg.userId = ""
    THEN ComposioCall(toolName, cfg, "done", FALSE,
                      Thrown(ToolError(N_composio_client,
                                       "Composio configuration missing. Check COMPOSIO_API_KEY, COMPOSIO_MCP_ENDPOINT, COMPOSIO_USER_ID in .env",
                                       FALSE)))
    ELSE ComposioCall(toolName, cfg, "post", TRUE, Returned(FALSE, ""))

\* callComposioTool after `await axios.post(...)`: the normalized response
\* (successful unless the data say successful: false), or the catch
composioSettle(c, out) ==
    IF out.ok
    THEN [c EXCEPT !.stage = "done", !.outcome = out.data,
                   !.result = Returned(out.data # "unsuccessful",
                                       IF out.data = "unsuccessful" THEN "quota" ELSE "")]
    ELSE [c EXCEPT !.stage = "done", !.outcome = "error", !.cause = out.error,
                   !.result = composioCatch(out.error)]

\* callComposioTool(toolName, params) is called
callComposioTool(toolName, cfg) ==
    /\ BagCardinality(calls) < MaxCalls
    /\ calls' = calls (+) SetToBag({composioStart(toolName, cfg)})
    /\ UNCHANGED <<pc, exitCode, apiKey, servers, modules, idx, toolRegistry, errorLog, listening, reqs, moduleCache, instances, currentLevel, console, posts>>

\* the request of one suspended callComposioTool ends
composioPost(c) ==
    /\ c.stage = "post"
    /\ \E out \in ComposioOutcomes :
          calls' = (calls (-) SetToBag({c})) (+) SetToBag({composioSettle(c, out)})
    /\ UNCHANGED <<pc, exitCode, apiKey, servers, modules, idx, toolRegistry, errorLog, listening, reqs, moduleCache, instances, currentLevel, console, posts>>

NextComposio ==
    \/ \E toolName \in {"YOUTUBE_LIST_USER_SUBSCRIPTIONS"} : \E cfg \in ComposioConfigs :
          callComposioTool(toolName, cfg)
    \/ \E c \in BagToSet(calls) : composioPost(c)

\* callComposioTool is a function of its module and of config.composio
SpecComposio == InitCall /\ [][NextComposio]_vars

(***************************************************************************)
(* app.post('/mcp'): transport and server made, connected, the request     *)
(* handled, the 'close' listener registered                                *)
(***************************************************************************)
\* the catch block of the route handler closing the pair before it answers
postCatch_closesPair(p) ==
    [p EXCEPT !.stage = "caught", !.pair = "closed",
              !.status = IF p.headersSent THEN p.status ELSE 500,
              !.headersSent = TRUE]

\* the catch block of the route handler: log, and answer 500 with a JSON-RPC
\* error if the headers were not sent yet
postCatch(p) ==
    [p EXCEPT !.stage = "caught",
              !.status = IF p.headersSent THEN p.status ELSE 500,
              !.headersSent = TRUE]

\* a POST /mcp passed bearerAuth: new StreamableHTTPServerTransport,
\* createMcpServer(), up to `await mcpServer.connect(transport)`
postMcp(id) ==
    /\ pc = "serving"
    /\ posts[id].stage = "idle"
    /\ posts' = [posts EXCEPT ![id] = [@ EXCEPT !.stage = "connect", !.pair = "open"]]
    /\ instances' = instances + 1
    /\ UNCHANGED <<pc, exitCode, apiKey, servers, modules, idx, toolRegistry, errorLog, listening, reqs, calls, moduleCache, currentLevel, console>>

\* `await mcpServer.connect(transport)` settles: it returns, or it throws
\* into the catch
postConnect(id) ==
    /\ pc = "serving"
    /\ posts[id].stage = "connect"
    /\ \E connected \in BOOLEAN :
          posts' = [posts EXCEPT ![id] = IF connected THEN [@ EXCEPT !.stage = "handle"]
                                          ELSE postCatch(@)]
    /\ UNCHANGED <<pc, exitCode, apiKey, servers, modules, idx, toolRegistry, errorLog, listening, reqs, calls, moduleCache, instances, currentLevel, console>>

\* `await transport.handleRequest(req, res, req.body)` settles: it returns
\* and res.on('close', ...) is registered, or it throws into the catch
\* before or after the transport wrote the headers
postHandleRequest(id) ==
    /\ pc = "serving"
    /\ posts[id].stage = "handle"
    /\ \E out \in {"returned", "threwBeforeHeaders", "threwAfterHeaders"} :
          posts' = [posts EXCEPT ![id] =
                       IF out = "returned"
                       THEN [@ EXCEPT !.stage = "registered", !.listener = TRUE,
                                      !.headersSent = TRUE, !.status = 200]
                       ELSE IF out = "threwAfterHeaders"
                       THEN postCatch([@ EXCEPT !.headersSent = TRUE, !.status = 200])
                       ELSE postCatch(@)]
    /\ UNCHANGED <<pc, exitCode, apiKey, servers, modules, idx, toolRegistry, errorLog, listening, reqs, calls, moduleCache, instances, currentLevel, console>>

\* the response emits 'close' (it was finished, or the client went away):
\* the listener, if it is registered by now, closes the transport and the
\* protocol server
resClose(id) ==
    /\ pc = "serving"
    /\ posts[id].stage # "idle"
    /\ ~posts[id].resClosed
    /\ posts' = [posts EXCEPT ![id] =
                    [@ EXCEPT !.resClosed = TRUE,
                              !.pair = IF posts[id].listener THEN "closed" ELSE @]]
    /\ UNCHANGED <<pc, exitCode, apiKey, servers, modules, idx, toolRegistry, errorLog, listening, reqs, calls, moduleCache, instances, currentLevel, console>>

\* one step of one run of the route handler
postStep == \E id \in 1..MaxPosts : postMcp(id) \/ postConnect(id) \/ postHandleRequest(id)

\* one response closes
resClosing == \E id \in 1..MaxPosts : resClose(id)

NextPost ==
    \/ main
    \/ initializeToolRegistry
    \/ startMcpServer
    \/ \E id \in 1..MaxPosts : postMcp(id)
    \/ \E id \in 1..MaxPosts : postConnect(id)
    \/ \E id \in 1..MaxPosts : postHandleRequest(id)
    \/ \E id \in 1..MaxPosts : resClose(id)

\* the event loop keeps running: a suspended handler is resumed when its
\* promise settles, and every response closes in the end
SpecPost ==
    Init /\ [][NextPost]_vars /\ WF_vars(postStep) /\ WF_vars(resClosing)

(***************************************************************************)
(* Authentication                                                          *)
(***************************************************************************)
\* the header carries exactly 'Bearer ' followed by the configured secret
TokenValid(auth) == auth.present /\ auth.value = BearerPrefix \o apiKey

\* C1: no List or Call handler and no /mcp route handler ever runs for a
\* request whose bearer token is missing, malformed or different from the
\* configured secret; the HTTP transport answers it with 401 or 403.
C1_NoHandlerWithoutToken ==
    \A q \in Requests :
        (q.req.path = "/mcp" /\ ~TokenValid(q.req.auth)) =>
            /\ q.route = "none"
            /\ q.handler = "none"
            /\ q.stage = "done"
            /\ q.status \in {401, 403}
            /\ q.imports = 0

\* a POST /mcp carrying a Call but a wrong token has been answered
C1_Witness ==
    \E q \in Requests :
        /\ q.req.method = "POST" /\ q.req.path = "/mcp" /\ q.req.rpc.op = "call"
        /\ q.req.auth = BadTokenHeader
        /\ q.status = 403

\* C2: bearerAuth maps every /mcp request to exactly one outcome: no header or
\* one not starting with 'Bearer ' gives 401 with a JSON-RPC error body (id
\* null); 'Bearer ' followed by anything but the secret gives 403 with a
\* JSON-RPC error body (id null); the secret gives next() and no response from
\* the middleware.
C2_BearerAuthOutcomes ==
    \A q \in Requests :
        q.req.path = "/mcp" =>
            LET h == q.req.auth
                hasPrefix == h.present /\ Len(h.value) >= 7
                                /\ \A k \in 1..7 : h.value[k] = BearerPrefix[k]
                rest == [k \in 1..(Len(h.value) - 7) |-> h.value[k + 7]]
            IN /\ q.authRan
               /\ ~hasPrefix =>
                     /\ ~q.authNext /\ q.status = 401
                     /\ q.body.kind = "jsonrpcError" /\ q.body.idNull /\ q.body.code = -32001
               /\ (hasPrefix /\ rest # apiKey) =>
                     /\ ~q.authNext /\ q.status = 403
                     /\ q.body.kind = "jsonrpcError" /\ q.body.idNull /\ q.body.code = -32002
               /\ (hasPrefix /\ rest = apiKey) =>
                     /\ q.authNext /\ q.route # "none"
                     /\ q.status \notin {401, 403}

\* one request was answered 401 and another was passed on
C2_Witness ==
    \E q1, q2 \in Requests :
        /\ q1.req.path = "/mcp" /\ q1.status = 401 /\ q1.authRan
        /\ q2.req.path = "/mcp" /\ q2.authNext /\ q2.route = "postMcp"

(***************************************************************************)
(* Startup                                                                 *)
(***************************************************************************)
\* C3: without a configured MCP_API_KEY the process exits at startup, before
\* the registry is built and before any listener is opened; the transport
\* never serves /mcp with an empty secret, so 'Bearer ' with an empty token
\* is never accepted.
C3_FailFastWithoutSecret ==
    /\ apiKey = <<>> =>
          /\ pc \in {"boot", "exited"}
          /\ idx = 1 /\ toolRegistry = <<>> /\ errorLog = {}
          /\ ~listening
          /\ reqs = EmptyBag
    /\ pc = "exited" => exitCode = 1
    /\ \A q \in Requests : q.req.auth = Header(BearerPrefix) => ~q.authNext

\* the process has exited for want of a secret
C3_Witness == apiKey = <<>> /\ pc = "exited" /\ exitCode = 1

(***************************************************************************)
(* Calls                                                                   *)
(***************************************************************************)
\* the tool a received Call was routed to
ToolOf(q) == ToolModule(q.entry[1].serverName, q.entry[1].toolName)

\* the Call was routed to a module that is intact on disk
Intact(q) == modules[ModuleIndex(q.entry[1])] = "ok"

\* the required input fields the Call's arguments lack
MissingFields(q) ==
    LET schema == ToolOf(q).inputSchema
    IN {k \in Range(schema.order) :
           /\ schema.fields[k].required /\ ~schema.fields[k].hasDefault
           /\ Get(q.req.rpc.args, k).type = "undefined"}

\* C4: a Call to a registered operation whose arguments lack a required input
\* field yields an error response (error flag set) whose message names the
\* missing field.
C4_MissingFieldRejected ==
    \A q \in Requests :
        (q.handler = "call" /\ q.stage = "done" /\ q.entry # <<>> /\ Intact(q)
            /\ MissingFields(q) # {}) =>
            /\ q.body.kind = "callResult"
            /\ q.body.isError
            /\ \E k \in MissingFields(q) :
                  \E j \in 1..Len(q.body.text.message.issues) :
                     q.body.text.message.issues[j].path = k

C6_UnknownNameIsRoutingError ==
    \A q \in Requests :
        (q.handler = "call" /\ ~MapHas(toolRegistry, q.req.rpc.name)) =>
            /\ q.stage = "done"
            /\ q.body.kind = "rpcError"
            /\ ~q.body.isError
            /\ q.body.message = "Unknown tool"
            /\ q.body.text.toolName = q.req.rpc.name
            /\ q.imports = 0 /\ q.entry = <<>>
            /\ pc = "serving" /\ listening /\ exitCode = -1
            /\ BagCardinality(reqs) < MaxRequests =>
                  ENABLED (\E req \in RequestInputs : Receive(req))

\* a Call of a name no list has, and a Call of a listed name whose
\* registration failed, have been answered
C6_Witness ==
    \E q1, q2 \in Requests :
        /\ q1.handler = "call" /\ q1.req.rpc.name = N_unknown /\ q1.body.kind = "rpcError"
        /\ q2.handler = "call" /\ q2.req.rpc.name # N_unknown /\ q2.body.kind = "rpcError"

\* C7: for every successful Call response, parsing the text as JSON yields a
\* value that validates against the called operation's output schema.
C7_SuccessTextRevalidates ==
    \A q \in Requests :
        (q.handler = "call" /\ q.stage = "done" /\ q.body.kind = "callResult"
            /\ ~q.body.isError) =>
            ZodParse(ToolOf(q).outputSchema, JSONParse(q.body.text)).issues = <<>>

(***************************************************************************)
(* Registry and List                                                       *)
(***************************************************************************)
\* the positions of the static list whose registration succeeds
Registrable == {i \in 1..Len(PairsOf(servers)) : modules[i] # "broken"}

\* the Name Normalizer's output for the pair at a position of the static list
WireName(i) ==
    LET pair == PairsOf(servers)[i] IN mcpToolName(pair.serverName, pair.toolName)

\* the names of a listed catalog
NamesOf(tools) == [j \in 1..Len(tools) |-> tools[j].name]

\* C8: after registry construction, List returns exactly one entry per
\* successfully registered (group, operation) pair, and that entry's name is
\* the Name Normalizer's output for the pair.
C8_ListOneEntryPerPair ==
    \A q \in Requests :
        q.handler = "list" =>
            LET names == NamesOf(q.body.tools)
            IN /\ q.body.kind = "listResult"
               /\ Len(names) = Cardinality(Registrable)
               /\ \A i \in Registrable :
                     Cardinality({j \in 1..Len(names) : names[j] = WireName(i)}) = 1
               /\ \A j \in 1..Len(names) : \E i \in Registrable : names[j] = WireName(i)

\* a List was answered after one registration had failed
C8_Witness ==
    \E q \in Requests :
        /\ q.handler = "list"
        /\ Len(q.body.tools) >= 1
        /\ Len(q.body.tools) < Len(PairsOf(servers))

\* C9: no two entries of the static list normalize to the same wire name; the
\* registry's wire names are in bijection with the registered pairs, so the
\* registry size is the number of pairs whose registration succeeded.
C9_WireNamesBijective ==
    /\ Cardinality({WireName(i) : i \in 1..Len(PairsOf(servers))}) = Len(PairsOf(servers))
    /\ \A i, j \in 1..Len(toolRegistry) : i # j => toolRegistry[i].key # toolRegistry[j].key
    /\ pc = "serving" =>
          /\ Len(toolRegistry) = Cardinality(Registrable)
          /\ {toolRegistry[i].key : i \in 1..Len(toolRegistry)} = {WireName(i) : i \in Registrable}
          /\ \A i \in 1..Len(toolRegistry) :
                toolRegistry[i].key =
                   mcpToolName(toolRegistry[i].serverName, toolRegistry[i].toolName)

\* the registry was built with one registration failed
C9_Witness ==
    /\ pc = "serving"
    /\ Len(toolRegistry) >= 2
    /\ Len(toolRegistry) < Len(PairsOf(servers))

RECURSIVE ExpectedNames(_)
\* the wire names of the registrable positions from i on, in list order
ExpectedNames(i) ==
    IF i > Len(PairsOf(servers)) THEN <<>>
    ELSE (IF i \in Registrable THEN <<WireName(i)>> ELSE <<>>) \o ExpectedNames(i + 1)

\* C10: List returns the registry entries in the order the static list is
\* iterated at startup (groups in list order, operations in each group's
\* order, failed registrations left out); for groups alpha(doThing) and
\* beta(getValue) the names are alpha__do_thing then beta__get_value.
C10_ListInRegistryOrder ==
    \A q \in Requests :
        q.handler = "list" =>
            /\ NamesOf(q.body.tools) = ExpectedNames(1)
            /\ (servers = scenarioCatalog /\ Registrable = {1, 2}) =>
                  NamesOf(q.body.tools) = <<D_alpha__do_thing, D_beta__get_value>>

\* the List of the two-group scenario was answered with both names
C10_Witness ==
    /\ servers = scenarioCatalog
    /\ \E q \in Requests :
          q.handler = "list" /\ Len(q.body.tools) = 2
             /\ q.body.tools[1].name = D_alpha__do_thing

(***************************************************************************)
(* Schema Translator                                                       *)
(***************************************************************************)
\* C11: every registry entry's inputSchema is one self-contained object
\* schema, with no $ref and no definitions map: the document the conversion
\* keys by a reference is stored as the dereferenced definition of the
\* tool's input validator.
C11_InputSchemaSelfContained ==
    \A i \in 1..Len(toolRegistry) :
        LET s == toolRegistry[i].metadata.inputSchema
            tool == ToolModule(toolRegistry[i].serverName, toolRegistry[i].toolName)
            full == zodToJsonSchema(tool.inputSchema,
                                    toolRegistry[i].key \o <<"_", "i", "n", "p", "u", "t">>)
        IN /\ full.hasRef /\ full.hasDefinitions
           /\ ~s.hasRef /\ ~s.hasDefinitions /\ ~s.hasSchemaKey
           /\ s.type = "object"
           /\ s = JsonSchemaOf(tool.inputSchema)

\* the registry holds a schema with a required field and one without
C11_Witness ==
    \E i, j \in 1..Len(toolRegistry) :
        /\ toolRegistry[i].metadata.inputSchema.required # {}
        /\ toolRegistry[j].metadata.inputSchema.required = {}

(***************************************************************************)
(* Registry construction                                                   *)
(***************************************************************************)
\* C12: while the registry is built, an entry whose registration fails
\* (import fails, export missing, schema translation throws) is logged and
\* left out, every other entry of the static list is processed and
\* registered, and startup goes on to serve.
C12_RegistrationFaultIsolated ==
    /\ \A i \in 1..Len(PairsOf(servers)) :
          i < idx =>
             IF modules[i] = "broken"
             THEN i \in errorLog /\ ~MapHas(toolRegistry, WireName(i))
             ELSE i \notin errorLog /\ MapHas(toolRegistry, WireName(i))
    /\ apiKey # <<>> => pc # "exited"
    /\ pc = "registering" => (ENABLED initializeToolRegistry) \/ (ENABLED startMcpServer)
    /\ pc = "serving" => idx = Len(PairsOf(servers)) + 1 /\ listening

\* the server listens after a registration failed and a later entry of the
\* list was registered
C12_Witness ==
    /\ pc = "serving" /\ listening
    /\ \E i, j \in 1..Len(PairsOf(servers)) :
          /\ i < j
          /\ modules[i] = "broken" /\ i \in errorLog
          /\ MapHas(toolRegistry, WireName(j))

\* C13: once the server is serving, no step writes the registry: List, Call
\* (successful or failed), /health and every rejected or accepted /mcp
\* request leave its keys, their order and the entries as they are.
C13_RegistryReadOnlyWhileServing ==
    [][pc = "serving" => toolRegistry' = toolRegistry]_vars

\* a Call that succeeded and a Call that failed have both been answered
C13_Witness ==
    /\ pc = "serving" /\ Len(toolRegistry) >= 1
    /\ \E q1, q2 \in Requests :
          /\ q1.handler = "call" /\ q1.stage = "done" /\ q1.body.kind = "callResult"
          /\ ~q1.body.isError
          /\ q2.handler = "call" /\ q2.stage = "done" /\ q2.body.isError

(***************************************************************************)
(* Validation Wrapper                                                      *)
(***************************************************************************)
\* the tool an invocation of call belongs to
CalledTool(c) == ToolModule(c.path.serverName, c.path.toolName)

\* 'path: message' of every issue, joined with ', '
IssueText(issues) ==
    CASE Len(issues) = 1 -> issues[1].path \o ": " \o issues[1].message
      [] Len(issues) = 2 -> issues[1].path \o ": " \o issues[1].message \o ", "
                               \o issues[2].path \o ": " \o issues[2].message
      [] OTHER -> ""

\* C14: call validates rawInput first; when the input is invalid the call
\* rejects with a ToolError whose retryable flag is false and whose message
\* lists every issue as 'path: message' in the validator's order, and
\* execute is not invoked.
C14_InvalidInputRejectedUnexecuted ==
    \A c \in Invocations :
        LET issues == IssuesFrom(CalledTool(c).inputSchema, c.rawInput, 1)
        IN issues # <<>> =>
              /\ c.stage = "rejected" /\ c.executed = 0 /\ c.thrown = <<>>
              /\ c.error[1].class = "ToolError"
              /\ c.error[1].tool = CalledTool(c).name
              /\ ~c.error[1].retryable
              /\ c.error[1].message = "Validation failed: " \o IssueText(issues)
              /\ (c.path.toolName = N_greet /\ c.rawInput = [language |-> Val("string", "xx")]) =>
                    c.error[1].message =
                       "Validation failed: name: Required, language: Invalid enum value"

\* a call of greet with two invalid fields and a call with one missing field
\* were rejected
C14_Witness ==
    \E c1, c2 \in Invocations :
        /\ c1.stage = "rejected" /\ c1.executed = 0
        /\ Len(IssuesFrom(CalledTool(c1).inputSchema, c1.rawInput, 1)) = 2
        /\ c2.stage = "rejected" /\ c2.rawInput = EmptyObject

\* C15: every rejection of call is a ToolError: a failure of the output
\* validation and a thrown value that is no ToolError are wrapped with
\* retryable false, a ToolError thrown by execute is passed on unchanged, so
\* a retryable rejection can only come from the collaborator.
C15_EveryRejectionIsToolError ==
    \A c \in Invocations :
        c.stage = "rejected" =>
            LET e == c.error[1]
            IN /\ e.class = "ToolError"
               /\ c.thrown = <<>> =>
                     e.tool = CalledTool(c).name /\ ~e.retryable /\ e.issues # <<>>
               /\ (c.thrown # <<>> /\ c.thrown[1].class = "ToolError") => e = c.thrown[1]
               /\ (c.thrown # <<>> /\ c.thrown[1].class # "ToolError") =>
                     /\ e.tool = CalledTool(c).name /\ ~e.retryable
                     /\ c.thrown[1].class = "Error" => e.message = c.thrown[1].message
                     /\ c.thrown[1].class = "other" => e.message = "Unknown error occurred"
               /\ e.retryable =>
                     c.thrown # <<>> /\ c.thrown[1].class = "ToolError" /\ c.thrown[1].retryable

\* one call was rejected for its output and one with the collaborator's
\* retryable ToolError
C15_Witness ==
    \E c1, c2 \in Invocations :
        /\ c1.stage = "rejected" /\ c1.executed = 1 /\ c1.thrown = <<>>
        /\ c2.stage = "rejected" /\ c2.error[1].retryable

(***************************************************************************)
(* Concurrent requests                                                     *)
(***************************************************************************)
\* the responses a Call can get, computed from its own name and arguments,
\* the registry and the modules on disk
CallResponses(rpc) ==
    IF ~MapHas(toolRegistry, rpc.name)
    THEN {ProtocolError(UnknownTool(rpc.name))}
    ELSE LET entry == MapGet(toolRegistry, rpc.name)
             module == ImportModule(modules[ModuleIndex(entry)], entry.serverName,
                                    entry.toolName)
         IN IF ~module.hasExecute
            THEN {CallFailure(rpc.name, PlainError("Tool does not have an execute function"))}
            ELSE {IF out.threw THEN CallFailure(rpc.name, out.error)
                  ELSE CallSuccess(out.value) : out \in ExecuteOutcomes(module.tool, rpc.args)}

C17_ToolFreshPerCall ==
    /\ \A i \in 1..Len(toolRegistry) :
          /\ DOMAIN toolRegistry[i] = {"key", "serverName", "toolName", "metadata"}
          /\ DOMAIN toolRegistry[i].metadata = {"name", "description", "inputSchema"}
    /\ \A q \in Requests : q.imports > 0 => q.evaluated

\* the requests that reached the POST /mcp route, with their multiplicity
PostRequests == [q \in {x \in Requests : x.route = "postMcp"} |-> reqs[q]]

\* C18: every POST /mcp that passed authentication is served by a protocol
\* server and transport made in its own handling: as many pairs were made as
\* such requests were received, one by each, none by any other request, and
\* what a request is answered does not depend on the requests before it.
C18_FreshServerPerPost ==
    /\ instances = BagCardinality(PostRequests)
    /\ \A q \in Requests :
          /\ q.server = IF q.route = "postMcp" THEN 1 ELSE 0
          /\ q.route = "postMcp" => q.authNext /\ q.req.method = "POST"
          /\ (q.stage = "done" /\ q.handler # "call") =>
                LET alone == Handle(q.req, apiKey, toolRegistry)
                IN q.status = alone.status /\ q.body = alone.body

\* two POST /mcp requests were accepted, a List among them, and each got a
\* pair of its own
C18_Witness ==
    /\ instances = 2
    /\ \E q \in Requests : q.handler = "list" /\ q.server = 1
    /\ BagCardinality(PostRequests) = 2

C21_SuccessCarriesStructuredCopy ==
    \A q \in Requests :
        (q.handler = "call" /\ q.stage = "done" /\ q.body.kind = "callResult"
            /\ ~q.body.isError) =>
            /\ q.body.text.kind = "json"
            /\ q.body.structured


(***************************************************************************)
(* The wire-name rule                                                      *)
(***************************************************************************)
RECURSIVE Flatten(_)
\* the concatenation of a sequence of sequences
Flatten(pieces) == IF pieces = <<>> THEN <<>> ELSE Head(pieces) \o Flatten(Tail(pieces))

\* the rule of the claim, letter by letter: in the group every hyphen
\* becomes an underscore; in the operation every uppercase letter becomes an
\* underscore and its lowercase form; the two are joined by "__"
WireRule(group, operation) ==
    [i \in 1..Len(group) |-> IF group[i] = "-" THEN "_" ELSE group[i]]
    \o <<"_", "_">>
    \o Flatten([i \in 1..Len(operation) |->
                   IF operation[i] \in DOMAIN ToLowerCase
                   THEN <<"_", ToLowerCase[operation[i]]>>
                   ELSE <<operation[i]>>])

\* C22: the wire name of a (group, operation) pair is the group with every
\* hyphen rewritten to an underscore, "__", and the operation with every
\* uppercase letter replaced by an underscore and its lowercase form; the
\* registry key built at startup and the name List advertises both follow
\* this one rule, and a Call by that name resolves to the pair.
C22_OneRuleForEveryWireName ==
    /\ \A i \in 1..Len(toolRegistry) :
          LET e == toolRegistry[i]
          IN /\ e.key = WireRule(e.serverName, e.toolName)
             /\ e.metadata.name = WireRule(e.serverName, e.toolName)
    /\ \A q \in Requests :
          (q.handler = "call" /\ q.entry # <<>>) =>
              q.req.rpc.name = WireRule(q.entry[1].serverName, q.entry[1].toolName)


\* C23: for every tool module registered under (group, operation), the name
\* the tool declares through createTool equals the wire name the registry
\* assigns to the pair.
C23_DeclaredNameIsWireName ==
    \A i \in 1..Len(toolRegistry) :
        LET e == toolRegistry[i]
        IN /\ ToolModule(e.serverName, e.toolName).name = e.key
           /\ ToolModule(e.serverName, e.toolName).name = e.metadata.name

\* qdrant-rag/search, qdrant-rag/listCollections and youtube/getLatestVideos
\* are registered under the names their modules declare
C23_Witness ==
    /\ pc = "serving"
    /\ \E i \in 1..Len(toolRegistry) :
          /\ toolRegistry[i].serverName = N_qdrant_rag
          /\ toolRegistry[i].toolName = N_search
          /\ toolRegistry[i].key = D_qdrant_rag__search
    /\ \E i \in 1..Len(toolRegistry) :
          /\ toolRegistry[i].serverName = N_qdrant_rag
          /\ toolRegistry[i].toolName = N_listCollections
          /\ toolRegistry[i].key = D_qdrant_rag__list_collections
    /\ \E i \in 1..Len(toolRegistry) :
          /\ toolRegistry[i].serverName = N_youtube
          /\ toolRegistry[i].toolName = N_getLatestVideos
          /\ toolRegistry[i].key = D_youtube__get_latest_videos


(***************************************************************************)
(* Shutdown                                                                *)
(***************************************************************************)
\* C24: on SIGINT or SIGTERM the process terminates its transport binding
\* and releases its listeners before it exits with status 0.
C24_SignalClosesTransportBeforeExit ==
    (pc = "exited" /\ exitCode = 0) => ~listening


(***************************************************************************)
(* Logging                                                                 *)
(***************************************************************************)
\* C25: every logger call (debug, info, warn, error, fatal), in every state
\* of the server, writes only to stderr and never to stdout.
C25_LoggerNeverWritesStdout ==
    console.stdout = <<>>

\* while the server is serving, the logger has written a plain message and an
\* object with its message, at two different levels
C25_Witness ==
    /\ pc = "serving"
    /\ Len(console.stderr) = 2
    /\ ~console.stderr[1].json
    /\ console.stderr[2].json /\ console.stderr[2].text # ""
    /\ console.stderr[1].level # console.stderr[2].level


(***************************************************************************)
(* Summaries                                                               *)
(***************************************************************************)
\* C26: summarize never rejects: it returns the empty string for empty or
\* whitespace-only text without contacting any provider, the truncation
\* fallback when no AI API key is configured, and the truncation fallback
\* when the provider request fails or answers with a non-OK status.
C26_SummarizeNeverRejects ==
    \A s \in BagToSet(calls) :
        /\ s.settled # "rejected"
        /\ (\A i \in 1..Len(s.text) : s.text[i] \in Whitespace) =>
              s.settled = "fulfilled" /\ s.value = <<>> /\ ~s.contacted
        /\ ((\E i \in 1..Len(s.text) : s.text[i] \notin Whitespace) /\ s.key = "") =>
              s.settled = "fulfilled" /\ s.value = truncateFallback(s.text) /\ ~s.contacted
        /\ s.cause \in {"networkError", "timeout", "status401", "status500"} =>
              s.settled = "fulfilled" /\ s.value = truncateFallback(s.text)

\* a summarize whose provider answered 500 returned the first two sentences
\* of its text
C26_Witness ==
    \E s \in BagToSet(calls) :
        /\ s.text = T_sentences /\ s.cause = "status500" /\ s.settled = "fulfilled"
        /\ s.contacted
        /\ Len(s.value) = 48
        /\ SubSeq(s.value, 1, 25) = SubSeq(T_sentences, 1, 25)


(***************************************************************************)
(* Colliding wire names                                                    *)
(***************************************************************************)
\* the pairs of positions of the static list, earlier and later, whose wire
\* names are equal and whose registrations have both succeeded
RegisteredCollisions ==
    {c \in (1..Len(PairsOf(servers))) \X (1..Len(PairsOf(servers))) :
        /\ c[1] < c[2] /\ c[2] < idx
        /\ WireName(c[1]) = WireName(c[2])
        /\ modules[c[1]] \in {"ok", "noExecute"} /\ modules[c[2]] \in {"ok", "noExecute"}
        /\ \A k \in (c[2] + 1)..(idx - 1) : WireName(k) # WireName(c[2])}

\* C27: when two entries of the static list normalize to the same wire name
\* and both register successfully, the later registration silently replaces
\* the earlier one: the registry keeps one entry for the name, with the
\* serverName, toolName and metadata of the later pair, no error is raised,
\* and the earlier operation is unreachable.
C27_LastRegistrationWins ==
    \A c \in RegisteredCollisions :
        LET early == PairsOf(servers)[c[1]]
            late == PairsOf(servers)[c[2]]
            held == {k \in 1..Len(toolRegistry) : toolRegistry[k].key = WireName(c[2])}
        IN /\ Cardinality(held) = 1
           /\ \A k \in held :
                 /\ toolRegistry[k].serverName = late.serverName
                 /\ toolRegistry[k].toolName = late.toolName
                 /\ toolRegistry[k].metadata =
                       loadToolMetadata(late.serverName, late.toolName, modules[c[2]]).metadata
           /\ c[1] \notin errorLog /\ c[2] \notin errorLog
           /\ pc # "exited"
           /\ \A k \in 1..Len(toolRegistry) :
                 ~(toolRegistry[k].serverName = early.serverName
                     /\ toolRegistry[k].toolName = early.toolName)
           /\ \A q \in Requests :
                 q.entry # <<>> =>
                    ~(q.entry[1].serverName = early.serverName
                        /\ q.entry[1].toolName = early.toolName)

\* qdrant-rag/search and qdrant_rag/search both registered, and a Call of
\* qdrant_rag__search was routed to the module of the later group
C27_Witness ==
    /\ RegisteredCollisions # {}
    /\ \E q \in Requests :
          /\ q.req.rpc.name = D_qdrant_rag__search
          /\ q.stage = "done" /\ q.imports = 1
          /\ q.entry[1].serverName = N_qdrant_rag_snake


(***************************************************************************)
(* Failure classes of the Composio client                                  *)
(***************************************************************************)
\* C28: callComposioTool classifies failures by cause: missing configuration
\* raises a non-retryable ToolError before any request is made; HTTP 401
\* raises a non-retryable ToolError; HTTP 429, timeouts (ECONNABORTED,
\* ETIMEDOUT) and errors with no response raise retryable ToolErrors; every
\* other failure is returned as {successful: false, error} without throwing.
C28_ComposioFailureClasses ==
    \A c \in BagToSet(calls) :
        LET missing == c.cfg.apiKey = "" \/ c.cfg.mcpEndpoint = "" \/ c.cfg.userId = ""
            e == c.cause
            transient == e.isAxios /\ (e.status = 429
                                          \/ e.code \in {"ECONNABORTED", "ETIMEDOUT"}
                                          \/ e.status = 0)
        IN /\ missing =>
                /\ c.stage = "done" /\ ~c.requested
                /\ c.result.threw /\ c.result.error.class = "ToolError"
                /\ ~c.result.error.retryable
           /\ (c.outcome = "error" /\ e.isAxios /\ e.status = 401) =>
                /\ c.result.threw /\ c.result.error.class = "ToolError"
                /\ ~c.result.error.retryable
           /\ (c.outcome = "error" /\ transient) =>
                /\ c.result.threw /\ c.result.error.class = "ToolError"
                /\ c.result.error.retryable
           /\ (c.outcome = "error" /\ ~transient /\ ~(e.isAxios /\ e.status = 401)) =>
                /\ ~c.result.threw /\ ~c.result.successful /\ c.result.errorText # ""
           /\ c.outcome = "unsuccessful" =>
                /\ ~c.result.threw /\ ~c.result.successful

\* one call was refused for a missing user id without a request, and one
\* that was rate-limited threw a retryable ToolError
C28_Witness ==
    /\ \E c \in BagToSet(calls) :
          c.cfg.userId = "" /\ c.cfg.apiKey # "" /\ c.result.threw /\ ~c.requested
    /\ \E c \in BagToSet(calls) :
          /\ c.outcome = "error" /\ c.cause.status = 429
          /\ c.result.threw /\ c.result.error.retryable


(***************************************************************************)
(* Routing of listed names                                                 *)
(***************************************************************************)
\* the position of the static list whose registration made a registry entry
RegisteredAt(e) ==
    CHOOSE j \in 1..(idx - 1) :
        /\ PairsOf(servers)[j].serverName = e.serverName
        /\ PairsOf(servers)[j].toolName = e.toolName

\* C29: for every registry entry the map key equals entry.metadata.name, and
\* a Call for that key imports exactly the module path
\* ./servers/<serverName>/<toolName>.js probed when the entry was registered
\* (serverName with its hyphens, toolName in camelCase), so a listed name
\* routes to the module that supplied its schema.
C29_ListedNameRoutesToItsModule ==
    /\ \A i \in 1..Len(toolRegistry) :
          LET e == toolRegistry[i]
              p == PairsOf(servers)[RegisteredAt(e)]
          IN /\ e.key = e.metadata.name
             /\ e.metadata =
                   loadToolMetadata(p.serverName, p.toolName, modules[RegisteredAt(e)]).metadata
    /\ \A q \in Requests :
          q.imports = 1 =>
             LET e == MapGet(toolRegistry, q.req.rpc.name)
                 p == PairsOf(servers)[RegisteredAt(e)]
             IN /\ q.imported = probeModulePath(p.serverName, p.toolName)
                /\ ModuleIndex(q.entry[1]) = RegisteredAt(e)

\* a Call of qdrant_rag__search imported ./servers/qdrant-rag/search.js
C29_Witness ==
    \E q \in Requests :
        /\ q.req.rpc.name = D_qdrant_rag__search
        /\ q.imports = 1
        /\ q.entry[1].serverName = N_qdrant_rag
        /\ Len(q.imported) = Len(N_qdrant_rag) + Len(N_search) + 14
        /\ SubSeq(q.imported, 11, 20) = N_qdrant_rag


(***************************************************************************)
(* Lifetime of a request's protocol server and transport                   *)
(***************************************************************************)
\* C30: every protocol server / transport pair created for a POST /mcp
\* request is eventually closed after that request's response closes,
\* including when the response has already closed by the time handleRequest
\* returns and when connect or handleRequest throws.
C30_PairEventuallyClosed ==
    \A id \in 1..MaxPosts :
        [](posts[id].pair = "open" => <>(posts[id].pair = "closed"))

====
